---- MODULE Spec2Model ----
(***************************************************************************)
(* Boundary-detector training script                                       *)
(* (apps/web/scripts/train-boundary-detector/train_model.py):              *)
(* main, load_dataset, check_early_stop_signal and the custom epoch loop   *)
(* of train_model, as one state machine; then the functions the script     *)
(* shares with the preview and test scripts, each applied on its own to    *)
(* inputs drawn from bounded sets: mask_markers, estimate_marker_size and  *)
(* get_rotated_mask_polygon (marker_masking.py), the colour augmentations  *)
(* (train_model.py and                                                     *)
(* pipeline_preview.py), the three DSNT decoders, convexity_loss, and      *)
(* parse_range (src/generate.py).                                          *)
(*                                                                         *)
(* Floats are modelled on a grid of 0.001 (one unit = min_delta), extended *)
(* with the two IEEE values the loop can meet: +inf (the initial           *)
(* best_val_loss) and NaN (np.mean of a diverged or empty loss list).      *)
(* Model weights are modelled by the number of gradient steps that         *)
(* produced them: every train_step yields new, distinct weights.           *)
(***************************************************************************)
EXTENDS Integers, Sequences, FiniteSets, TLC

\* ---------------------------------------------------------------- bounds
MaxFiles == 3        \* *.png files found under data_dir
MaxEpochs == 3       \* largest --epochs tried by the full program
MaxLoss == 2         \* validation losses range over 0..MaxLoss (x 0.001) and NaN
MaxImproving == 3    \* longest improving prefix of the synthetic loss feed
PlateauMaxLoss == 4  \* losses of the synthetic feed range over 0..PlateauMaxLoss
SmallBatchSize == 5  \* a --batch-size that splits the validation set into several batches
MaxPix == 1          \* pixel levels of a test image range over 0..MaxPix
MaxNoise == 1        \* levels a draw of the masking noise may add or take away
MaxCorners == 5      \* longest corners list handed to mask_markers
MaxLevel == 3        \* a colour channel takes the values (l * 255) \div MaxLevel, l in 0..MaxLevel
MaxPixels == 2       \* pixels of the largest image handed to the colour augmentations
MaxHeat == 1         \* heatmap values range over 0..MaxHeat heat units
MaxShift == 1        \* constants added to a heatmap range over -MaxShift..MaxShift heat units
MaxCoord == 1        \* decoded corner coordinates range over 0..MaxCoord
MaxNorm == 1         \* normalized corner coordinates range over 0..MaxNorm halves
MaxStrLen == 5       \* longest range string handed to parse_range

\* ------------------------------------------------------ program constants
Inf == 1000000       \* float('inf')
NaN == 1000001       \* float('nan')
patience == 8
min_delta == 1       \* 0.001, in grid units
MinSamples == 20
DefaultBatchSize == 16  \* --batch-size default
ValidationSplitPct == 20  \* --validation-split default 0.2
augment_factor == 9

\* ------------------------------------------------------- float helpers
\* a < b on floats: every comparison with NaN is False.
Lt(a, b) ==
    IF a = NaN \/ b = NaN THEN FALSE
    ELSE IF a = Inf THEN FALSE
    ELSE IF b = Inf THEN TRUE
    ELSE a < b

\* a - d on floats, d finite: inf - d = inf, nan - d = nan.
Sub(a, d) == IF a = Inf \/ a = NaN THEN a ELSE a - d

LossVals == (0..MaxLoss) \cup {NaN}

\* What one *.png of data_dir turns out to be when load_dataset reaches it.
\*   "ok"          annotated frame that loads and masks
\*   "mask_fails"  annotated frame that loads, but mask_markers raises on it
\*   "no_json"     no sidecar annotation file
\*   "no_corners"  annotation without the four corner entries
\*   "load_raises" the body raises: malformed annotation or unreadable image
FileKinds == {"ok", "mask_fails", "no_json", "no_corners", "load_raises"}

VARIABLES
    pc,               \* position in main / load_dataset / train_model
    args,             \* parse_args(): epochs, batch_size, color_augmentation,
                      \* no_marker_masking, stop_file (a path was given)
    total_files,      \* load_dataset: len(png_files)
    file_kinds,       \* load_dataset: what the files handled so far turned out to be
    idx,              \* load_dataset: files (then raw samples) handled so far
    raw_samples,      \* load_dataset: [file, masked] per loaded frame
    skipped,          \* load_dataset: frames skipped
    images,           \* load_dataset / main: [file, aug, masked] per sample
    all_heatmaps,     \* load_dataset: the frame each heatmap stack was built from
    all_coords,       \* load_dataset: the frame each coordinate array was built from
    events,           \* emit_progress calls of kind "error" and warning/error "status"
    exit_status,      \* "running", "exit1" (sys.exit(1)) or "complete"
    n_train, n_val,   \* len(X_train), len(X_val) after train_test_split
    epoch,            \* train_model: loop variable of `for epoch in range(epochs)`
    batch_idx,        \* train_model: batches done in the running batch loop
    model_weights,    \* the model's current weights
    best_val_loss, best_weights, patience_counter,  \* training run state
    history,          \* train_model: the four per-epoch lists
    val_loss,         \* train_model: np.mean(val_losses) of the running epoch
    outcome,          \* how the epoch loop was left
    stop_file_exists, \* the stop-signal file is present on disk
    samples_generated,\* generate_inference_samples calls made
    saved_weights,    \* weights written by model.save, <<>> before
    export_attempted  \* export_to_tfjs was called

VARIABLES
    image,            \* mask_markers: the caller's image array
    corners,          \* mask_markers: the corners argument
    method,           \* mask_markers: the method argument
    returned,         \* what each caller of mask_markers got back
    rgb,              \* augment_*: the uint8 RGB image, a list of (r, g, b) pixels
    factor,           \* augment_*: the factor argument, in tenths
    train_out,        \* last result of an augment_* of train_model.py
    preview_out,      \* last result of an augment_* of pipeline_preview.py
    hm,               \* DSNT: one heatmap channel, [h, w, v] with v in row-major order
    shift,            \* DSNT: the scalar c added to every value of hm
    decoded,          \* DSNT: (x, y) each decoder returned for hm
    decoded_shifted,  \* DSNT: (x, y) each decoder returned for hm + c
    coords,           \* convexity_loss: the decoded corners, in channel order TL, TR, BL, BR
    total_penalty,    \* convexity_loss: the value returned, << >> before the call
    norm_corners,     \* estimate_marker_size: corners, normalized, in halves
    image_size,       \* estimate_marker_size: << image_width, image_height >>
    size_factor,      \* estimate_marker_size: size_factor, in hundredths
    marker_size,      \* estimate_marker_size: the value returned, << >> before the call
    range_str,        \* parse_range: the string, as a list of characters
    step,             \* parse_range: the step argument
    numbers,          \* parse_range: what the call gave, << >> before the call
    corner,           \* get_rotated_mask_polygon: (x, y) normalized, in eighths
    quad_center,      \* get_rotated_mask_polygon: (x, y) normalized, in eighths
    poly_marker_size, \* get_rotated_mask_polygon: the marker_size argument
    poly_image_size,  \* get_rotated_mask_polygon: << image_width, image_height >>
    polygon           \* get_rotated_mask_polygon: the value returned, << >> before the call

\* The training script's own state, and the state of the functions it shares
\* with the preview and test scripts when they are applied on their own.
progVars == << pc, args, total_files, file_kinds, idx, raw_samples, skipped, images, all_heatmaps,
               all_coords, events, exit_status, n_train, n_val, epoch, batch_idx,
               model_weights, best_val_loss, best_weights, patience_counter, history,
               val_loss, outcome, stop_file_exists, samples_generated, saved_weights,
               export_attempted >>
maskVars == << image, corners, method, returned >>
colorVars == << rgb, factor, train_out, preview_out >>
dsntVars == << hm, shift, decoded, decoded_shifted >>
convexVars == << coords, total_penalty >>
sizeVars == << norm_corners, image_size, size_factor, marker_size >>
rangeVars == << range_str, step, numbers >>
polyVars == << corner, quad_center, poly_marker_size, poly_image_size, polygon >>
libVars == << maskVars, colorVars, dsntVars, convexVars, sizeVars, rangeVars, polyVars >>
notMaskVars == << colorVars, dsntVars, convexVars, sizeVars, rangeVars, polyVars >>
notColorVars == << maskVars, dsntVars, convexVars, sizeVars, rangeVars, polyVars >>
notDsntVars == << maskVars, colorVars, convexVars, sizeVars, rangeVars, polyVars >>
notConvexVars == << maskVars, colorVars, dsntVars, sizeVars, rangeVars, polyVars >>
notSizeVars == << maskVars, colorVars, dsntVars, convexVars, rangeVars, polyVars >>
notRangeVars == << maskVars, colorVars, dsntVars, convexVars, sizeVars, polyVars >>
notPolyVars == << maskVars, colorVars, dsntVars, convexVars, sizeVars, rangeVars >>
vars == << progVars, libVars >>

loadVars == << total_files, file_kinds, idx, raw_samples, skipped, images, all_heatmaps, all_coords >>
runVars == << best_val_loss, best_weights, patience_counter >>
trainVars == << epoch, batch_idx, model_weights, best_val_loss, best_weights,
                patience_counter, history, val_loss, outcome, samples_generated >>
mainVars == << exit_status, n_train, n_val, saved_weights, export_attempted >>

EmptyHistory == [loss |-> <<>>, val_loss |-> <<>>, coord_mae |-> <<>>, val_coord_mae |-> <<>>]

Event(type, what, file, hint) == [event |-> type, what |-> what, file |-> file, hint |-> hint]

\* --------------------------------------------------------------- Init
ArgSets == [epochs : 0..MaxEpochs, batch_size : {DefaultBatchSize},
            color_augmentation : BOOLEAN, no_marker_masking : BOOLEAN,
            stop_file : BOOLEAN]

\* No function is being applied on its own while the training script runs.
MaskIdle ==
    /\ image = "none"
    /\ corners = <<>>
    /\ method = "none"
    /\ returned = <<>>

ColorIdle ==
    /\ rgb = <<>>
    /\ factor = 0
    /\ train_out = <<>>
    /\ preview_out = <<>>

DsntIdle ==
    /\ hm = <<>>
    /\ shift = 0
    /\ decoded = <<>>
    /\ decoded_shifted = <<>>

ConvexIdle ==
    /\ coords = <<>>
    /\ total_penalty = <<>>

SizeIdle ==
    /\ norm_corners = <<>>
    /\ image_size = <<>>
    /\ size_factor = 0
    /\ marker_size = <<>>

RangeIdle ==
    /\ range_str = <<>>
    /\ step = 1
    /\ numbers = <<>>

PolyIdle ==
    /\ corner = <<>>
    /\ quad_center = <<>>
    /\ poly_marker_size = 0
    /\ poly_image_size = <<>>
    /\ polygon = <<>>

LibIdle ==
    /\ MaskIdle
    /\ ColorIdle
    /\ DsntIdle
    /\ ConvexIdle
    /\ SizeIdle
    /\ RangeIdle
    /\ PolyIdle

TrainInit ==
    /\ epoch = 0
    /\ batch_idx = 0
    /\ model_weights = 0
    /\ best_val_loss = Inf
    /\ best_weights = <<>>
    /\ patience_counter = 0
    /\ history = EmptyHistory
    /\ val_loss = NaN
    /\ outcome = "none"
    /\ samples_generated = 0

Init ==
    /\ pc = "load_raw"
    /\ args \in ArgSets
    /\ total_files \in 0..MaxFiles
    /\ file_kinds = <<>>
    /\ idx = 0
    /\ raw_samples = <<>>
    /\ skipped = 0
    /\ images = <<>>
    /\ all_heatmaps = <<>>
    /\ all_coords = <<>>
    /\ events = <<>>
    /\ exit_status = "running"
    /\ n_train = 0
    /\ n_val = 0
    /\ TrainInit
    /\ stop_file_exists = FALSE
    /\ saved_weights = <<>>
    /\ export_attempted = FALSE
    /\ LibIdle

\* ------------------------------------------------- external environment
\* Another process creates the stop-signal file named by --stop-file. It may do
\* so at any moment of the run, and again after the file has been consumed.
CreateStopFile ==
    /\ args.stop_file
    /\ ~stop_file_exists
    /\ exit_status = "running"
    /\ stop_file_exists' = TRUE
    /\ UNCHANGED << pc, args, loadVars, events, mainVars, trainVars >>
    /\ UNCHANGED libVars

\* ------------------------------------------------------- load_dataset
\* Faulty variant: no outer try/except around the body, so an exception propagates.
FrameResult_Raises(kind, apply_marker_masking) ==
    IF kind = "no_json" THEN "skip"
    ELSE IF kind = "no_corners" THEN "skip"
    ELSE IF kind = "load_raises" THEN "raise"
    ELSE IF apply_marker_masking
         THEN (IF kind = "mask_fails" THEN "append_warn" ELSE "append_masked")
         ELSE "append"

\* Faulty variant: no inner try/except around mask_markers, so a masking failure is
\* caught by the outer handler and the frame is dropped.
FrameResult_MaskFailSkips(kind, apply_marker_masking) ==
    IF kind = "no_json" THEN "skip"
    ELSE IF kind = "no_corners" THEN "skip"
    ELSE IF kind = "load_raises" THEN "skip_error"
    ELSE IF apply_marker_masking
         THEN (IF kind = "mask_fails" THEN "skip_error" ELSE "append_masked")
         ELSE "append"

\* What the body of the raw-frame loop does with one file:
\*   "skip"        counted in skipped, nothing logged
\*   "skip_error"  an exception caught by the outer try: logged, counted in skipped
\*   "append_warn" mask_markers raised: warning logged, unmasked frame appended
\*   "append_masked" / "append"  frame appended, masked or (masking off) not
\*   "raise" is what an exception outside both try blocks would be.
FrameResult(kind, apply_marker_masking) ==
    IF kind = "no_json" THEN "skip"
    ELSE IF kind = "no_corners" THEN "skip"
    ELSE IF kind = "load_raises" THEN "skip_error"
    ELSE IF apply_marker_masking
         THEN (IF kind = "mask_fails" THEN "append_warn" ELSE "append_masked")
         ELSE "append"

\* One iteration of `for idx, png_path in enumerate(png_files)`, on a file that
\* turns out to be of the given kind.
LoadRawFile(kind) ==
    /\ pc = "load_raw"
    /\ idx < total_files
    /\ file_kinds' = Append(file_kinds, kind)
    /\ LET f == idx + 1
           r == FrameResult(kind, ~args.no_marker_masking)
       IN  /\ raw_samples' =
                  IF r \in {"append", "append_masked", "append_warn"}
                  THEN Append(raw_samples, [file |-> f, masked |-> (r = "append_masked")])
                  ELSE raw_samples
           /\ skipped' = IF r \in {"skip", "skip_error"} THEN skipped + 1 ELSE skipped
           /\ events' =
                  IF r = "append_warn"
                  THEN Append(events, Event("status", "mask_warning", f, FALSE))
                  ELSE IF r = "skip_error"
                  THEN Append(events, Event("status", "load_error", f, FALSE))
                  ELSE events
           /\ IF r = "raise"
              THEN /\ pc' = "exited"
                   /\ exit_status' = "crashed"
                   /\ idx' = idx
              ELSE /\ pc' = "load_raw"
                   /\ exit_status' = "running"
                   /\ idx' = idx + 1
    /\ UNCHANGED << args, total_files, images, all_heatmaps, all_coords, n_train, n_val,
                    saved_weights, export_attempted, trainVars, stop_file_exists >>
    /\ UNCHANGED libVars

\* `if not raw_samples:` after the loop: error event with hint, sys.exit(1);
\* otherwise the processing loop starts.
LoadRawDone ==
    /\ pc = "load_raw"
    /\ idx = total_files
    /\ IF raw_samples = <<>>
       THEN /\ events' = Append(events, Event("error", "no_valid_frames", 0, TRUE))
            /\ pc' = "exited"
            /\ exit_status' = "exit1"
            /\ idx' = idx
       ELSE /\ pc' = "process"
            /\ idx' = 0
            /\ UNCHANGED << events, exit_status >>
    /\ UNCHANGED << args, total_files, file_kinds, raw_samples, skipped, images,
                    all_heatmaps, all_coords, n_train, n_val, saved_weights,
                    export_attempted, trainVars, stop_file_exists >>
    /\ UNCHANGED libVars

\* apply_color_augmentation: the original first, then 2 brightness, 2 contrast,
\* 2 saturation and 2 combined variants.
AugKinds == << "original", "brightness", "brightness", "contrast", "contrast",
               "saturation", "saturation", "combined", "combined" >>

\* Faulty variant: the original is appended after its variants.
apply_color_augmentation_OriginalLast(s) ==
    [k \in 1..Len(AugKinds) |->
        [file |-> s.file, aug |-> AugKinds[(k % Len(AugKinds)) + 1], masked |-> s.masked]]

apply_color_augmentation(s) ==
    [k \in 1..Len(AugKinds) |-> [file |-> s.file, aug |-> AugKinds[k], masked |-> s.masked]]

\* The versions of one raw frame that the processing loop appends.
ProcessedVersions(s, color_augmentation) ==
    IF color_augmentation
    THEN apply_color_augmentation(s)
    ELSE << [file |-> s.file, aug |-> "original", masked |-> s.masked] >>

\* One iteration of `for idx, (img_array, keypoints) in enumerate(raw_samples)`.
ProcessSample ==
    /\ pc = "process"
    /\ idx < Len(raw_samples)
    /\ LET s == raw_samples[idx + 1]
           vs == ProcessedVersions(s, args.color_augmentation)
       IN  /\ images' = images \o vs
           /\ all_heatmaps' = all_heatmaps \o [k \in 1..Len(vs) |-> s.file]
           /\ all_coords' = all_coords \o [k \in 1..Len(vs) |-> s.file]
    /\ idx' = idx + 1
    /\ UNCHANGED << pc, args, total_files, file_kinds, raw_samples, skipped, events,
                    mainVars, trainVars, stop_file_exists >>
    /\ UNCHANGED libVars

\* load_dataset returns images, all_heatmaps, all_coords to main; its other
\* locals end with the call.
LoadReturn ==
    /\ pc = "process"
    /\ idx = Len(raw_samples)
    /\ pc' = "check_min"
    /\ total_files' = 0
    /\ file_kinds' = <<>>
    /\ idx' = 0
    /\ raw_samples' = <<>>
    /\ skipped' = 0
    /\ UNCHANGED << args, images, all_heatmaps, all_coords, events, mainVars, trainVars,
                    stop_file_exists >>
    /\ UNCHANGED libVars


\* --------------------------------------------------------------- main
\* Faulty variant: only an empty dataset is rejected.
InsufficientData_OnlyEmpty(n) == n = 0

\* `if len(images) < 20:` error event with hint and sys.exit(1).
InsufficientData(n) == n < MinSamples

CheckMinSamples ==
    /\ pc = "check_min"
    /\ IF InsufficientData(Len(images))
       THEN /\ events' = Append(events, Event("error", "insufficient_data", 0, TRUE))
            /\ pc' = "exited"
            /\ exit_status' = "exit1"
       ELSE /\ pc' = "split"
            /\ UNCHANGED << events, exit_status >>
    /\ UNCHANGED << args, loadVars, n_train, n_val, saved_weights, export_attempted,
                    trainVars, stop_file_exists >>
    /\ UNCHANGED libVars

\* train_test_split(test_size=0.2): n_test = ceil(test_size * n), the rest trains.
TestSize(n) == (n * ValidationSplitPct + 99) \div 100

Split ==
    /\ pc = "split"
    /\ n_val' = TestSize(Len(images))
    /\ n_train' = Len(images) - TestSize(Len(images))
    /\ pc' = "train_entry"
    /\ UNCHANGED << args, loadVars, events, exit_status, saved_weights, export_attempted,
                    trainVars, stop_file_exists >>
    /\ UNCHANGED libVars

\* -------------------------------------------------------- train_model
\* Faulty variant: the run starts with a snapshot of the initial weights.
TrainEnter_SnapshotAtStart ==
    /\ pc = "train_entry"
    /\ epoch' = 0
    /\ batch_idx' = 0
    /\ model_weights' = 0
    /\ history' = EmptyHistory
    /\ best_val_loss' = Inf
    /\ best_weights' = << 0 >>
    /\ patience_counter' = 0
    /\ pc' = "epoch_start"
    /\ UNCHANGED << args, loadVars, events, mainVars, val_loss, outcome,
                    samples_generated, stop_file_exists >>
    /\ UNCHANGED libVars

\* Entry of train_model up to the epoch loop: create_model and the run state.
TrainEnter ==
    /\ pc = "train_entry"
    /\ epoch' = 0
    /\ batch_idx' = 0
    /\ model_weights' = 0
    /\ history' = EmptyHistory
    /\ best_val_loss' = Inf
    /\ best_weights' = <<>>
    /\ patience_counter' = 0
    /\ pc' = "epoch_start"
    /\ UNCHANGED << args, loadVars, events, mainVars, val_loss, outcome,
                    samples_generated, stop_file_exists >>
    /\ UNCHANGED libVars

\* Batches of a dataset of n samples: ceil(n / batch_size).
Batches(n) == (n + args.batch_size - 1) \div args.batch_size

\* Faulty variant: the signal file is reported but never unlinked.
StopFileAfterCheck_NoUnlink(stop_file, exists, os_ok) == exists

\* check_early_stop_signal: its return value, and the file afterwards. os_ok is
\* FALSE when exists() or unlink() raises (the path cannot be examined or
\* removed): the exception is swallowed, False is returned, the file stays.
check_early_stop_signal(stop_file, exists, os_ok) == stop_file /\ exists /\ os_ok

StopFileAfterCheck(stop_file, exists, os_ok) ==
    IF stop_file /\ exists /\ os_ok THEN FALSE ELSE exists

\* Faulty variant: the range test lets one iteration too many through.
EpochStart_OneMore(os_ok) ==
    /\ pc = "epoch_start"
    /\ IF epoch > args.epochs
       THEN /\ outcome' = "epochs_exhausted"
            /\ pc' = "restore"
            /\ UNCHANGED << stop_file_exists, batch_idx >>
       ELSE /\ stop_file_exists' = StopFileAfterCheck(args.stop_file, stop_file_exists, os_ok)
            /\ IF check_early_stop_signal(args.stop_file, stop_file_exists, os_ok)
               THEN /\ outcome' = "user_stopped"
                    /\ pc' = "restore"
                    /\ UNCHANGED batch_idx
               ELSE /\ pc' = "train_batches"
                    /\ batch_idx' = 0
                    /\ UNCHANGED outcome
    /\ UNCHANGED << args, loadVars, events, mainVars, epoch, model_weights, runVars,
                    history, val_loss, samples_generated >>
    /\ UNCHANGED libVars

\* Head of one iteration of `for epoch in range(epochs)`: the range test, then the
\* poll of the stop-signal file. (After the range is exhausted Python leaves epoch
\* at epochs - 1; here it counts the iterations begun.)
EpochStart(os_ok) ==
    /\ pc = "epoch_start"
    /\ IF epoch >= args.epochs
       THEN /\ outcome' = "epochs_exhausted"
            /\ pc' = "restore"
            /\ UNCHANGED << stop_file_exists, batch_idx >>
       ELSE /\ stop_file_exists' = StopFileAfterCheck(args.stop_file, stop_file_exists, os_ok)
            /\ IF check_early_stop_signal(args.stop_file, stop_file_exists, os_ok)
               THEN /\ outcome' = "user_stopped"
                    /\ pc' = "restore"
                    /\ UNCHANGED batch_idx
               ELSE /\ pc' = "train_batches"
                    /\ batch_idx' = 0
                    /\ UNCHANGED outcome
    /\ UNCHANGED << args, loadVars, events, mainVars, epoch, model_weights, runVars,
                    history, val_loss, samples_generated >>
    /\ UNCHANGED libVars

\* Faulty variant: the stop signal is also polled before every training batch.
TrainBatch_Polls ==
    /\ pc = "train_batches"
    /\ batch_idx < Batches(n_train)
    /\ IF check_early_stop_signal(args.stop_file, stop_file_exists, TRUE)
       THEN /\ stop_file_exists' = FALSE
            /\ outcome' = "user_stopped"
            /\ pc' = "restore"
            /\ UNCHANGED << batch_idx, model_weights >>
       ELSE /\ model_weights' = model_weights + 1
            /\ IF batch_idx + 1 = Batches(n_train)
               THEN pc' = "validate_batches" /\ batch_idx' = 0
               ELSE pc' = "train_batches" /\ batch_idx' = batch_idx + 1
            /\ UNCHANGED << outcome, stop_file_exists >>
    /\ UNCHANGED << args, loadVars, events, mainVars, epoch, runVars, history,
                    val_loss, samples_generated >>
    /\ UNCHANGED libVars

\* Faulty variant: best_weights aliases the live weights instead of holding a copy.
TrainBatch_AliasedBest ==
    /\ pc = "train_batches"
    /\ batch_idx < Batches(n_train)
    /\ model_weights' = model_weights + 1
    /\ best_weights' = IF best_weights # <<>> THEN << model_weights + 1 >> ELSE best_weights
    /\ IF batch_idx + 1 = Batches(n_train)
       THEN pc' = "validate_batches" /\ batch_idx' = 0
       ELSE pc' = "train_batches" /\ batch_idx' = batch_idx + 1
    /\ UNCHANGED << args, loadVars, events, mainVars, epoch, best_val_loss,
                    patience_counter, history, val_loss, outcome, samples_generated,
                    stop_file_exists >>
    /\ UNCHANGED libVars

\* One train_step: gradients applied, so the weights change.
TrainBatch ==
    /\ pc = "train_batches"
    /\ batch_idx < Batches(n_train)
    /\ model_weights' = model_weights + 1
    /\ IF batch_idx + 1 = Batches(n_train)
       THEN pc' = "validate_batches" /\ batch_idx' = 0
       ELSE pc' = "train_batches" /\ batch_idx' = batch_idx + 1
    /\ UNCHANGED << args, loadVars, events, mainVars, epoch, runVars, history,
                    val_loss, outcome, samples_generated, stop_file_exists >>
    /\ UNCHANGED libVars

\* Faulty variant: validation stops after its first batch.
ValBatch_FirstOnly ==
    /\ pc = "validate_batches"
    /\ batch_idx < Batches(n_val)
    /\ pc' = "epoch_metrics"
    /\ batch_idx' = 0
    /\ UNCHANGED << args, loadVars, events, mainVars, epoch, model_weights, runVars,
                    history, val_loss, outcome, samples_generated, stop_file_exists >>
    /\ UNCHANGED libVars

\* One val_step: no gradient update.
ValBatch ==
    /\ pc = "validate_batches"
    /\ batch_idx < Batches(n_val)
    /\ IF batch_idx + 1 = Batches(n_val)
       THEN pc' = "epoch_metrics" /\ batch_idx' = 0
       ELSE pc' = "validate_batches" /\ batch_idx' = batch_idx + 1
    /\ UNCHANGED << args, loadVars, events, mainVars, epoch, model_weights, runVars,
                    history, val_loss, outcome, samples_generated, stop_file_exists >>
    /\ UNCHANGED libVars

\* Faulty variant: the two coordinate errors are not recorded.
EpochMetrics_SkipsMae(v) ==
    /\ pc = "epoch_metrics"
    /\ val_loss' = v
    /\ history' = [history EXCEPT !.loss = Append(history.loss, epoch + 1),
                                  !.val_loss = Append(history.val_loss, v)]
    /\ pc' = "inference_samples"
    /\ UNCHANGED << args, loadVars, events, mainVars, epoch, batch_idx, model_weights,
                    runVars, outcome, samples_generated, stop_file_exists >>
    /\ UNCHANGED libVars

\* The epoch's means and the four history appends. v is np.mean(val_losses); the
\* other three means never steer the loop and are recorded by the epoch they
\* were measured in.
EpochMetrics(v) ==
    /\ pc = "epoch_metrics"
    /\ val_loss' = v
    /\ history' = [loss |-> Append(history.loss, epoch + 1),
                   val_loss |-> Append(history.val_loss, v),
                   coord_mae |-> Append(history.coord_mae, epoch + 1),
                   val_coord_mae |-> Append(history.val_coord_mae, epoch + 1)]
    /\ pc' = "inference_samples"
    /\ UNCHANGED << args, loadVars, events, mainVars, epoch, batch_idx, model_weights,
                    runVars, outcome, samples_generated, stop_file_exists >>
    /\ UNCHANGED libVars

\* generate_inference_samples and the "epoch" progress event.
InferenceSamples ==
    /\ pc = "inference_samples"
    /\ samples_generated' = samples_generated + 1
    /\ pc' = "checkpoint_decision"
    /\ UNCHANGED << args, loadVars, events, mainVars, epoch, batch_idx, model_weights,
                    runVars, history, val_loss, outcome, stop_file_exists >>
    /\ UNCHANGED libVars

\* Faulty variant: an improvement must exceed twice min_delta.
Improved_DoubleDelta(v, best) == Lt(v, Sub(best, 2 * min_delta))

\* Faulty variant: any decrease counts as an improvement.
Improved_NoDelta(v, best) == Lt(v, best)

\* `val_loss < best_val_loss - min_delta`
Improved(v, best) == Lt(v, Sub(best, min_delta))

\* Faulty variant: off by one in the patience test.
PatienceExhausted_Late(counter) == counter > patience

\* `patience_counter >= patience`
PatienceExhausted(counter) == counter >= patience

\* Faulty variant: an improving epoch does not reset the patience counter.
CheckpointDecision_KeepsCount ==
    /\ pc = "checkpoint_decision"
    /\ IF Improved(val_loss, best_val_loss)
       THEN /\ best_val_loss' = val_loss
            /\ best_weights' = << model_weights >>
            /\ epoch' = epoch + 1
            /\ pc' = "epoch_start"
            /\ UNCHANGED << outcome, patience_counter >>
       ELSE /\ patience_counter' = patience_counter + 1
            /\ UNCHANGED << best_val_loss, best_weights >>
            /\ IF PatienceExhausted(patience_counter + 1)
               THEN /\ outcome' = "early_stopped"
                    /\ pc' = "restore"
                    /\ UNCHANGED epoch
               ELSE /\ epoch' = epoch + 1
                    /\ pc' = "epoch_start"
                    /\ UNCHANGED outcome
    /\ UNCHANGED << args, loadVars, events, mainVars, batch_idx, model_weights, history,
                    val_loss, samples_generated, stop_file_exists >>
    /\ UNCHANGED libVars

\* The checkpoint decision that ends an epoch.
CheckpointDecision ==
    /\ pc = "checkpoint_decision"
    /\ IF Improved(val_loss, best_val_loss)
       THEN /\ best_val_loss' = val_loss
            /\ patience_counter' = 0
            /\ best_weights' = << model_weights >>
            /\ epoch' = epoch + 1
            /\ pc' = "epoch_start"
            /\ UNCHANGED outcome
       ELSE /\ patience_counter' = patience_counter + 1
            /\ UNCHANGED << best_val_loss, best_weights >>
            /\ IF PatienceExhausted(patience_counter + 1)
               THEN /\ outcome' = "early_stopped"
                    /\ pc' = "restore"
                    /\ UNCHANGED epoch
               ELSE /\ epoch' = epoch + 1
                    /\ pc' = "epoch_start"
                    /\ UNCHANGED outcome
    /\ UNCHANGED << args, loadVars, events, mainVars, batch_idx, model_weights, history,
                    val_loss, samples_generated, stop_file_exists >>
    /\ UNCHANGED libVars

\* Faulty variant: the best weights are never restored.
RestoredWeights_Never(current, best) == current

\* The weights of the model that train_model returns:
\* `if best_weights: model.set_weights(best_weights)`.
RestoredWeights(current, best) == IF best # <<>> THEN best[1] ELSE current

\* Faulty variant: the stop-signal file is polled once more after the loop.
RestoreAndReturn_PollsAgain ==
    /\ pc = "restore"
    /\ model_weights' = RestoredWeights(model_weights, best_weights)
    /\ stop_file_exists' = StopFileAfterCheck(args.stop_file, stop_file_exists, TRUE)
    /\ pc' = "returned"
    /\ UNCHANGED << args, loadVars, events, mainVars, epoch, batch_idx, runVars, history,
                    val_loss, outcome, samples_generated >>
    /\ UNCHANGED libVars

\* After the loop: restore and return model, history.
RestoreAndReturn ==
    /\ pc = "restore"
    /\ model_weights' = RestoredWeights(model_weights, best_weights)
    /\ pc' = "returned"
    /\ UNCHANGED << args, loadVars, events, mainVars, epoch, batch_idx, runVars, history,
                    val_loss, outcome, samples_generated, stop_file_exists >>
    /\ UNCHANGED libVars

\* ------------------------------------------------------- main, the rest
\* Final evaluation (no weight change) and model.save.
SaveModel ==
    /\ pc = "returned"
    /\ saved_weights' = << model_weights >>
    /\ pc' = "export"
    /\ UNCHANGED << args, loadVars, events, exit_status, n_train, n_val, export_attempted,
                    trainVars, stop_file_exists >>
    /\ UNCHANGED libVars

\* export_to_tfjs when the converter was importable, then the "complete" event.
ExportAndComplete(tfjs_available) ==
    /\ pc = "export"
    /\ export_attempted' = tfjs_available
    /\ exit_status' = "complete"
    /\ pc' = "exited"
    /\ UNCHANGED << args, loadVars, events, n_train, n_val, saved_weights, trainVars,
                    stop_file_exists >>
    /\ UNCHANGED libVars

Next ==
    \/ CreateStopFile
    \/ \E kind \in FileKinds : LoadRawFile(kind)
    \/ LoadRawDone
    \/ ProcessSample
    \/ LoadReturn
    \/ CheckMinSamples
    \/ Split
    \/ TrainEnter
    \/ \E os_ok \in BOOLEAN : EpochStart(os_ok)
    \/ TrainBatch
    \/ ValBatch
    \/ \E v \in LossVals : EpochMetrics(v)
    \/ InferenceSamples
    \/ CheckpointDecision
    \/ RestoreAndReturn
    \/ SaveModel
    \/ \E a \in BOOLEAN : ExportAndComplete(a)

Spec == Init /\ [][Next]_vars

\* ---------------------------------------------- train_model on its own
\* What load_dataset returns for n good frames with masking and color
\* augmentation on, and what main then passes to train_model.
RECURSIVE LoadedImages(_, _)
LoadedImages(raws, color_augmentation) ==
    IF raws = <<>> THEN <<>>
    ELSE LoadedImages(SubSeq(raws, 1, Len(raws) - 1), color_augmentation)
         \o ProcessedVersions(raws[Len(raws)], color_augmentation)

GoodRaw == [f \in 1..MaxFiles |-> [file |-> f, masked |-> TRUE]]

\* The state in which main calls train_model(epochs = e, stop_file = sf).
AtTrainEntry(e, sf) ==
    /\ pc = "train_entry"
    /\ args = [epochs |-> e, batch_size |-> SmallBatchSize, color_augmentation |-> TRUE,
               no_marker_masking |-> FALSE, stop_file |-> sf]
    /\ total_files = 0
    /\ file_kinds = <<>>
    /\ idx = 0
    /\ raw_samples = <<>>
    /\ skipped = 0
    /\ images = LoadedImages(GoodRaw, TRUE)
    /\ all_heatmaps = [k \in 1..(MaxFiles * augment_factor) |-> ((k - 1) \div augment_factor) + 1]
    /\ all_coords = [k \in 1..(MaxFiles * augment_factor) |-> ((k - 1) \div augment_factor) + 1]
    /\ events = <<>>
    /\ exit_status = "running"
    /\ n_val = TestSize(MaxFiles * augment_factor)
    /\ n_train = MaxFiles * augment_factor - TestSize(MaxFiles * augment_factor)
    /\ TrainInit
    /\ saved_weights = <<>>
    /\ export_attempted = FALSE
    /\ LibIdle

\* A run long enough for early stopping: one epoch more than patience.
LongEpochs == patience + 1

InitTrain ==
    /\ AtTrainEntry(LongEpochs, TRUE)
    /\ stop_file_exists \in BOOLEAN

NextTrain ==
    \/ CreateStopFile
    \/ TrainEnter
    \/ \E os_ok \in BOOLEAN : EpochStart(os_ok)
    \/ TrainBatch
    \/ ValBatch
    \/ \E v \in 0..MaxLoss : EpochMetrics(v)
    \/ InferenceSamples
    \/ CheckpointDecision
    \/ RestoreAndReturn

SpecTrain == InitTrain /\ [][NextTrain]_vars

\* train_model for several values of epochs, with its own steps taken as long
\* as one is possible: Python runs the function's statements one after another,
\* and every call inside the loop returns. The external process that creates
\* the stop file is under no such obligation.
EpochChoices == {0, 1, MaxEpochs, LongEpochs}

\* np.mean(val_losses) of an epoch: a low loss, a high loss, or NaN.
TerminationLosses == {0, MaxLoss, NaN}

InitTermination ==
    /\ \E e \in EpochChoices : AtTrainEntry(e, TRUE)
    /\ stop_file_exists \in BOOLEAN

TrainStep ==
    \/ TrainEnter
    \/ \E os_ok \in BOOLEAN : EpochStart(os_ok)
    \/ TrainBatch
    \/ ValBatch
    \/ \E v \in TerminationLosses : EpochMetrics(v)
    \/ InferenceSamples
    \/ CheckpointDecision
    \/ RestoreAndReturn

NextTermination ==
    \/ CreateStopFile
    \/ TrainStep

SpecTermination == InitTermination /\ [][NextTermination]_vars /\ WF_vars(TrainStep)

\* ------------------------------------- the synthetic validation-loss feed
\* Length of the longest prefix of h in which every entry improves on the one
\* before it by more than min_delta (the first entry improves on +inf).
RECURSIVE ImprovingLen(_)
ImprovingLen(h) ==
    IF Len(h) <= 1 THEN Len(h)
    ELSE LET p == ImprovingLen(SubSeq(h, 1, Len(h) - 1))
         IN  IF p = Len(h) - 1 /\ h[Len(h)] + min_delta < h[Len(h) - 1]
             THEN Len(h) ELSE p

\* The values the feed may give next, after the losses h: it improves for at
\* most MaxImproving epochs and then plateaus, staying within min_delta of the
\* last improving value.
FeedVals(h) ==
    LET k == ImprovingLen(h)
    IN  IF k = 0 THEN 0..PlateauMaxLoss
        ELSE { v \in 0..PlateauMaxLoss :
                 \/ k = Len(h) /\ k < MaxImproving /\ v + min_delta < h[k]
                 \/ h[k] - min_delta <= v /\ v <= h[k] + min_delta }

PlateauEpochs == MaxImproving + patience

InitPlateau ==
    /\ AtTrainEntry(PlateauEpochs, TRUE)
    /\ stop_file_exists = FALSE

NextPlateau ==
    \/ CreateStopFile
    \/ TrainEnter
    \/ \E os_ok \in BOOLEAN : EpochStart(os_ok)
    \/ TrainBatch
    \/ ValBatch
    \/ \E v \in FeedVals(history.val_loss) : EpochMetrics(v)
    \/ InferenceSamples
    \/ CheckpointDecision
    \/ RestoreAndReturn

SpecPlateau == InitPlateau /\ [][NextPlateau]_vars

\* The training script is not running: a function it shares with the preview
\* and test scripts is applied on its own.
ProgIdle ==
    /\ pc = "idle"
    /\ args = [epochs |-> 0, batch_size |-> DefaultBatchSize, color_augmentation |-> FALSE,
               no_marker_masking |-> FALSE, stop_file |-> FALSE]
    /\ total_files = 0
    /\ file_kinds = <<>>
    /\ idx = 0
    /\ raw_samples = <<>>
    /\ skipped = 0
    /\ images = <<>>
    /\ all_heatmaps = <<>>
    /\ all_coords = <<>>
    /\ events = <<>>
    /\ exit_status = "running"
    /\ n_train = 0
    /\ n_val = 0
    /\ TrainInit
    /\ stop_file_exists = FALSE
    /\ saved_weights = <<>>
    /\ export_attempted = FALSE

\* =====================================================================
\* marker_masking.py: mask_markers and its callers
\* =====================================================================
\* An image is [dtype, shape, px]. Its pixels are grouped by the mask polygon
\* that covers them: px[i] is the level of the pixels under the polygon of
\* corners[i], px[0] the level of all other pixels. A level stands for a uint8
\* value of 0..255 or a float value of 0..1, on a grid of MaxPix steps. A corner
\* is summarised by what get_rotated_mask_polygon makes of it: in_frame says
\* whether the polygon's bounding box, clipped to the image, is non-empty.
Dtypes == {"uint8", "float32", "float64"}
Methods == {"noise", "blur", "black", "inpaint"}
Shapes == {<< 224, 224, 3 >>}
PixVals == 0..MaxPix
NoiseVals == (0 - MaxNoise)..MaxNoise
Callers == {"mask_markers", "mask_markers_with_visualization",
            "load_dataset", "generate_pipeline_preview"}

Images == { [dtype |-> d, shape |-> sh,
             px |-> [i \in 0..MaxCorners |-> IF i = 0 THEN b ELSE m]] :
            d \in Dtypes, sh \in Shapes, b \in PixVals, m \in PixVals }

CornerLists == UNION { [1..n -> [in_frame : BOOLEAN]] : n \in 0..MaxCorners }

\* numpy's result type of an operation on arrays of dtypes a and b.
Promote(a, b) ==
    IF a = "float64" \/ b = "float64" THEN "float64"
    ELSE IF a = "float32" \/ b = "float32" THEN "float32"
    ELSE "uint8"

\* np.clip(v, 0, top)
Clip(v) == IF v < 0 THEN 0 ELSE IF v > MaxPix THEN MaxPix ELSE v

\* cv2.GaussianBlur applied twice with a kernel of at least 31: the pixels under
\* polygon i become a mix of their own level and of their surroundings.
GaussianBlur(px) == [i \in DOMAIN px |-> (px[i] + px[0]) \div 2]

\* Faulty variant: a list of more than 4 corners is let through.
CornersOk_AtLeastFour(cs) == Len(cs) >= 4

\* `if len(corners) != 4: raise ValueError`
CornersOk(cs) == Len(cs) = 4

\* Dtype of `result` after one "inpaint" iteration.
InpaintDtype(dtype, is_float) == IF is_float THEN "float32" ELSE "uint8"

\* One iteration of `for corner in corners`, for the corner of index i, on the
\* running result r; noise is the np.random.rand field drawn in the iteration.
MaskOneCorner(r, i, in_frame, m, is_float, noise) ==
    IF ~in_frame THEN r
    ELSE IF m = "noise" THEN
        LET blurred == GaussianBlur(r.px)
            fill == Clip(blurred[i] + noise)
        IN  [r EXCEPT !.px[i] = fill,
                      !.dtype = IF is_float THEN Promote(r.dtype, "float32") ELSE "uint8"]
    ELSE IF m = "blur" THEN
        [r EXCEPT !.px[i] = GaussianBlur(r.px)[i],
                  !.dtype = IF is_float THEN Promote(r.dtype, "float32") ELSE "uint8"]
    ELSE IF m = "black" THEN
        [r EXCEPT !.px[i] = 0]
    ELSE IF m = "inpaint" THEN
        [r EXCEPT !.px[i] = r.px[0], !.dtype = InpaintDtype(r.dtype, is_float)]
    ELSE r

RECURSIVE MaskLoop(_, _, _, _, _, _)
MaskLoop(r, cs, i, m, is_float, noise) ==
    IF i > Len(cs) THEN r
    ELSE MaskLoop(MaskOneCorner(r, i, cs[i].in_frame, m, is_float, noise),
                  cs, i + 1, m, is_float, noise)

\* mask_markers(image, corners, method): what the call gives back.
mask_markers(img, cs, m, noise) ==
    IF ~CornersOk(cs) THEN [status |-> "ValueError"]
    ELSE IF Len(cs) < 4 THEN [status |-> "IndexError"]
    ELSE [status |-> "ok",
          image |-> MaskLoop(img, cs, 1, m,
                             img.dtype = "float32" \/ img.dtype = "float64", noise)]

\* mask_markers_with_visualization: (masked_image, mask_overlay, mask_regions).
mask_markers_with_visualization(img, cs, m, noise) ==
    IF ~CornersOk(cs) THEN [status |-> "ValueError"]
    ELSE IF Len(cs) < 4 THEN [status |-> "IndexError"]
    ELSE LET masked == mask_markers(img, cs, m, noise)
         IN  IF masked.status # "ok" THEN masked
             ELSE [status |-> "ok", image |-> masked.image,
                   mask_overlay |-> { i \in 1..Len(cs) : cs[i].in_frame },
                   mask_regions |-> Len(cs)]

\* A caller that wraps the call in try/except and goes on with the unmasked
\* image when it raises (load_dataset, generate_pipeline_preview).
MaskOrFallback(img, cs, noise) ==
    LET masked == mask_markers(img, cs, "noise", noise)
    IN  IF masked.status = "ok" THEN masked
        ELSE [status |-> "unmasked", image |-> img]

NotCalled == [status |-> "none"]

\* The image is drawn with its corners and the method; nothing has been called.
InitMask ==
    /\ ProgIdle
    /\ PolyIdle
    /\ image \in Images
    /\ corners \in CornerLists
    /\ method \in Methods
    /\ returned = [c \in Callers |-> NotCalled]
    /\ ColorIdle
    /\ DsntIdle
    /\ ConvexIdle
    /\ SizeIdle
    /\ RangeIdle

\* A direct call of mask_markers(image, corners, method).
CallMaskMarkers(noise) ==
    /\ pc = "idle"
    /\ returned["mask_markers"] = NotCalled
    /\ returned' = [returned EXCEPT !["mask_markers"] =
                        mask_markers(image, corners, method, noise)]
    /\ UNCHANGED << progVars, image, corners, method, notMaskVars >>

CallMaskMarkersWithVisualization(noise) ==
    /\ pc = "idle"
    /\ returned["mask_markers_with_visualization"] = NotCalled
    /\ returned' = [returned EXCEPT !["mask_markers_with_visualization"] =
                        mask_markers_with_visualization(image, corners, method, noise)]
    /\ UNCHANGED << progVars, image, corners, method, notMaskVars >>

\* load_dataset masks a frame: a uint8 RGB array and the four keypoints it read
\* from the annotation.
LoadDatasetMasks(noise) ==
    /\ pc = "idle"
    /\ image.dtype = "uint8"
    /\ Len(corners) = 4
    /\ returned["load_dataset"] = NotCalled
    /\ returned' = [returned EXCEPT !["load_dataset"] =
                        MaskOrFallback(image, corners, noise)]
    /\ UNCHANGED << progVars, image, corners, method, notMaskVars >>

\* generate_pipeline_preview masks the image it was given (step 2).
PreviewMasks(noise) ==
    /\ pc = "idle"
    /\ image.dtype = "uint8"
    /\ returned["generate_pipeline_preview"] = NotCalled
    /\ returned' = [returned EXCEPT !["generate_pipeline_preview"] =
                        MaskOrFallback(image, corners, noise)]
    /\ UNCHANGED << progVars, image, corners, method, notMaskVars >>

NextMask ==
    \/ \E noise \in NoiseVals : CallMaskMarkers(noise)
    \/ \E noise \in NoiseVals : CallMaskMarkersWithVisualization(noise)
    \/ \E noise \in NoiseVals : LoadDatasetMasks(noise)
    \/ \E noise \in NoiseVals : PreviewMasks(noise)

SpecMask == InitMask /\ [][NextMask]_vars

\* =====================================================================
\* Colour augmentation: train_model.py and pipeline_preview.py
\* =====================================================================
\* A uint8 RGB image is a list of pixels << r, g, b >>, each channel in 0..255.
\* A factor is given in tenths. The float arithmetic of the functions is done
\* exactly, on fractions num / den with den > 0; rounding errors of float32 and
\* float64 are not modelled.
MaxU8 == 255
FactorUnit == 10
Factors == {0, 5, 7, 10, 13, 15, 20}
ChannelVals == { (l * MaxU8) \div MaxLevel : l \in 0..MaxLevel }
Pixels == ChannelVals \X ChannelVals \X ChannelVals

\* Test images: one pixel of any colour before a grey background.
RgbImages ==
    { << p >> \o [i \in 1..n |-> << bg, bg, bg >>] :
        p \in Pixels, bg \in ChannelVals, n \in 0..(MaxPixels - 1) }

\* np.clip(num / den, 0, 255).astype(np.uint8): clip, then drop the fraction.
ClipToU8(num, den) ==
    IF num < 0 THEN 0
    ELSE IF num > MaxU8 * den THEN MaxU8
    ELSE num \div den

\* round(num / den) for num >= 0.
RoundDiv(num, den) == (2 * num + den) \div (2 * den)

RECURSIVE ChannelSum(_, _, _)
ChannelSum(img, c, n) == IF n = 0 THEN 0 ELSE ChannelSum(img, c, n - 1) + img[n][c]

\* ---- train_model.py
train_augment_brightness(img, f) ==
    [i \in DOMAIN img |-> [c \in 1..3 |-> ClipToU8(img[i][c] * f, FactorUnit)]]

\* Faulty variant: the mean is not added back.
train_augment_contrast_NoMean(img, f) ==
    LET n == Len(img)
    IN  [i \in DOMAIN img |-> [c \in 1..3 |->
            ClipToU8((img[i][c] * n - ChannelSum(img, c, n)) * f, FactorUnit * n)]]

\* mean = np.mean(image, axis=(0, 1)); (image - mean) * factor + mean
train_augment_contrast(img, f) ==
    LET n == Len(img)
    IN  [i \in DOMAIN img |-> [c \in 1..3 |->
            LET sum == ChannelSum(img, c, n)
            IN  ClipToU8((img[i][c] * n - sum) * f + FactorUnit * sum, FactorUnit * n)]]

\* gray = np.mean(image, axis=2); gray + (image - gray) * factor
train_augment_saturation(img, f) ==
    [i \in DOMAIN img |-> [c \in 1..3 |->
        LET s == img[i][1] + img[i][2] + img[i][3]
        IN  ClipToU8((3 * img[i][c] - s) * f + FactorUnit * s, 3 * FactorUnit)]]

\* ---- pipeline_preview.py
preview_augment_brightness(img, f) ==
    [i \in DOMAIN img |-> [c \in 1..3 |-> ClipToU8(img[i][c] * f, FactorUnit)]]

preview_augment_contrast(img, f) ==
    LET n == Len(img)
    IN  [i \in DOMAIN img |-> [c \in 1..3 |->
            LET sum == ChannelSum(img, c, n)
            IN  ClipToU8((img[i][c] * n - sum) * f + FactorUnit * sum, FactorUnit * n)]]

Max3(a, b, c) == IF a >= b /\ a >= c THEN a ELSE IF b >= c THEN b ELSE c
Min3(a, b, c) == IF a <= b /\ a <= c THEN a ELSE IF b <= c THEN b ELSE c

\* cv2.cvtColor(pixel, COLOR_RGB2HSV) on uint8: V = max, S = 255 (V - min) / V,
\* H = hue in degrees / 2, each rounded to the nearest integer.
RGB2HSV(p) ==
    LET r == p[1]
        g == p[2]
        b == p[3]
        v == Max3(r, g, b)
        diff == v - Min3(r, g, b)
        sat == IF v = 0 THEN 0 ELSE RoundDiv(MaxU8 * diff, v)
        \* half the hue, times diff
        raw == IF diff = 0 THEN 0
               ELSE IF v = r THEN 30 * (g - b)
               ELSE IF v = g THEN 60 * diff + 30 * (b - r)
               ELSE 120 * diff + 30 * (r - g)
        pos == IF raw < 0 THEN raw + 180 * diff ELSE raw
        hue == IF diff = 0 THEN 0 ELSE RoundDiv(pos, diff) % 180
    IN  << hue, sat, v >>

\* cv2.cvtColor(pixel, COLOR_HSV2RGB) on uint8.
HSV2RGB(q) ==
    LET deg == 2 * q[1]
        sat == q[2]
        v == q[3]
        sector == (deg \div 60) % 6
        fm == deg % 60
        full == MaxU8 * 60
        pp == RoundDiv(v * (MaxU8 - sat), MaxU8)
        qq == RoundDiv(v * (full - sat * fm), full)
        tt == RoundDiv(v * (full - sat * (60 - fm)), full)
    IN  IF sector = 0 THEN << v, tt, pp >>
        ELSE IF sector = 1 THEN << qq, v, pp >>
        ELSE IF sector = 2 THEN << pp, v, tt >>
        ELSE IF sector = 3 THEN << pp, qq, v >>
        ELSE IF sector = 4 THEN << tt, pp, v >>
        ELSE << v, pp, qq >>

\* hsv[:, :, 1] *= factor; clip to 0..255; astype(uint8); back to RGB
preview_augment_saturation(img, f) ==
    [i \in DOMAIN img |->
        LET hsv == RGB2HSV(img[i])
        IN  HSV2RGB(<< hsv[1], ClipToU8(hsv[2] * f, FactorUnit), hsv[3] >>)]

AugmentNames == {"augment_brightness", "augment_contrast", "augment_saturation"}

InitColor ==
    /\ ProgIdle
    /\ PolyIdle
    /\ MaskIdle
    /\ DsntIdle
    /\ ConvexIdle
    /\ SizeIdle
    /\ RangeIdle
    /\ rgb \in RgbImages
    /\ factor \in Factors
    /\ train_out = [fn |-> "none"]
    /\ preview_out = [fn |-> "none"]

\* train_model.<fn>(rgb, factor)
TrainAugment(fn) ==
    /\ pc = "idle"
    /\ train_out' = [fn |-> fn,
                     image |-> IF fn = "augment_brightness" THEN train_augment_brightness(rgb, factor)
                               ELSE IF fn = "augment_contrast" THEN train_augment_contrast(rgb, factor)
                               ELSE train_augment_saturation(rgb, factor)]
    /\ UNCHANGED << progVars, rgb, factor, preview_out, notColorVars >>

\* pipeline_preview.<fn>(rgb, factor)
PreviewAugment(fn) ==
    /\ pc = "idle"
    /\ preview_out' = [fn |-> fn,
                       image |-> IF fn = "augment_brightness" THEN preview_augment_brightness(rgb, factor)
                                 ELSE IF fn = "augment_contrast" THEN preview_augment_contrast(rgb, factor)
                                 ELSE preview_augment_saturation(rgb, factor)]
    /\ UNCHANGED << progVars, rgb, factor, train_out, notColorVars >>

NextColor ==
    \/ \E fn \in AugmentNames : TrainAugment(fn)
    \/ \E fn \in AugmentNames : PreviewAugment(fn)

SpecColor == InitColor /\ [][NextColor]_vars

\* =====================================================================
\* DSNT decoding: dsnt_decode (train_model.py), dsnt_decode_numpy
\* (test_inference.py) and the inline decoder of generate_inference_samples
\* =====================================================================
\* Heatmap values are whole numbers of heat units, one unit being ln 2, so that
\* exp of a value is a power of ExpBase and the softmax is computed exactly. A
\* decoded coordinate is the fraction num / (den + eps * 1e-8), in lowest terms.
ExpBase == 2
HeatmapShapes == {<< 1, 2 >>, << 2, 2 >>, << 2, 3 >>}
HeatVals == 0..MaxHeat
Shifts == (0 - MaxShift)..MaxShift
Heatmaps == UNION { { [h |-> sh[1], w |-> sh[2], v |-> vv] :
                        vv \in [1..(sh[1] * sh[2]) -> HeatVals] } : sh \in HeatmapShapes }
Decoders == {"dsnt_decode", "dsnt_decode_numpy", "generate_inference_samples"}

RECURSIVE Pow(_, _)
Pow(b, n) == IF n <= 0 THEN 1 ELSE b * Pow(b, n - 1)

RECURSIVE GCD(_, _)
GCD(a, b) == IF b = 0 THEN a ELSE GCD(b, a % b)

RECURSIVE SeqMax(_, _)
SeqMax(v, n) == IF n = 1 THEN v[1]
                ELSE LET m == SeqMax(v, n - 1) IN IF v[n] > m THEN v[n] ELSE m

RECURSIVE SeqMin(_, _)
SeqMin(v, n) == IF n = 1 THEN v[1]
                ELSE LET m == SeqMin(v, n - 1) IN IF v[n] < m THEN v[n] ELSE m

RECURSIVE WeightedSum(_, _, _)
WeightedSum(wts, grid, n) ==
    IF n = 0 THEN 0 ELSE WeightedSum(wts, grid, n - 1) + wts[n] * grid[n]

\* num / (den + eps * 1e-8) in lowest terms.
Frac(num, den, eps) ==
    IF num = 0 THEN [num |-> 0, den |-> 1, eps |-> 0]
    ELSE LET g == GCD(GCD(num, den), eps)
         IN  [num |-> num \div g, den |-> den \div g, eps |-> eps \div g]

\* hm + c
Shifted(m, c) == [m EXCEPT !.v = [i \in DOMAIN m.v |-> m.v[i] + c]]

\* Faulty variant: negative heatmap values are clamped to 0 before scaling.
Scaled_Clamped(v, temperature) ==
    [i \in DOMAIN v |-> (IF v[i] < 0 THEN 0 ELSE v[i]) * temperature]

\* hm_flat * temperature
Scaled(v, temperature) == [i \in DOMAIN v |-> v[i] * temperature]

\* The soft-argmax all three decoders share, for a temperature and for the
\* number of 1e-8 added to the softmax denominator: subtract the max,
\* exponentiate, normalise, take the expected column and row on linspace(0, 1).
SoftArgmax(m, temperature, epsilons) ==
    LET n == m.h * m.w
        scaled == Scaled(m.v, temperature)
        top == SeqMax(scaled, n)
        stable == [i \in 1..n |-> scaled[i] - top]
        low == SeqMin(stable, n)
        \* exp(stable[i]) = wts[i] / unit
        wts == [i \in 1..n |-> Pow(ExpBase, stable[i] - low)]
        unit == Pow(ExpBase, 0 - low)
        total == WeightedSum(wts, [i \in 1..n |-> 1], n)
        \* linspace(0, 1, k)[j] = j / (k - 1); linspace(0, 1, 1) = [0]
        cols == [i \in 1..n |-> (i - 1) % m.w]
        rows == [i \in 1..n |-> (i - 1) \div m.w]
        xden == IF m.w = 1 THEN 1 ELSE m.w - 1
        yden == IF m.h = 1 THEN 1 ELSE m.h - 1
    IN  << Frac(WeightedSum(wts, cols, n), xden * total, xden * unit * epsilons),
           Frac(WeightedSum(wts, rows, n), yden * total, yden * unit * epsilons) >>

\* tf.nn.softmax(heatmaps_flat * 10, axis=1), then the expected coordinates.
dsnt_decode(m) == SoftArgmax(m, 10, 0)

\* dsnt_decode_numpy(heatmaps, temperature=10.0)
dsnt_decode_numpy(m) == SoftArgmax(m, 10, 0)

\* The inline decoder: no temperature, and hm_kp / (hm_kp.sum() + 1e-8).
inline_decode(m) == SoftArgmax(m, 1, 1)

DecodeWith(d, m) ==
    IF d = "dsnt_decode" THEN dsnt_decode(m)
    ELSE IF d = "dsnt_decode_numpy" THEN dsnt_decode_numpy(m)
    ELSE inline_decode(m)

InitDsnt ==
    /\ ProgIdle
    /\ PolyIdle
    /\ MaskIdle
    /\ ColorIdle
    /\ ConvexIdle
    /\ SizeIdle
    /\ RangeIdle
    /\ hm \in Heatmaps
    /\ shift \in Shifts
    /\ decoded = [d \in Decoders |-> <<>>]
    /\ decoded_shifted = [d \in Decoders |-> <<>>]

\* Decoder d is applied to the heatmap.
Decode(d) ==
    /\ pc = "idle"
    /\ decoded[d] = <<>>
    /\ decoded' = [decoded EXCEPT ![d] = DecodeWith(d, hm)]
    /\ UNCHANGED << progVars, hm, shift, decoded_shifted, notDsntVars >>

\* Decoder d is applied to the heatmap with the constant added.
DecodeShifted(d) ==
    /\ pc = "idle"
    /\ decoded_shifted[d] = <<>>
    /\ decoded_shifted' = [decoded_shifted EXCEPT ![d] = DecodeWith(d, Shifted(hm, shift))]
    /\ UNCHANGED << progVars, hm, shift, decoded, notDsntVars >>

NextDsnt ==
    \/ \E d \in Decoders : Decode(d)
    \/ \E d \in Decoders : DecodeShifted(d)

SpecDsnt == InitDsnt /\ [][NextDsnt]_vars

\* =====================================================================
\* convexity_loss (train_model.py), on the corners dsnt_decode gave it
\* =====================================================================
\* One quadrilateral (a batch of one, so that tf.reduce_mean over the batch is
\* the value itself): coords[k] = << x, y >> for the channels k = 1..4, which
\* stand for TL, TR, BL, BR.
CoordVals == 0..MaxCoord
Quads == [1..4 -> CoordVals \X CoordVals]

\* Faulty variant: the corners are walked in channel order TL, TR, BL, BR.
WalkOrder_ChannelOrder(c) == << c[1], c[2], c[3], c[4] >>

\* corners = tf.stack([tl, tr, br, bl], axis=1)
WalkOrder(c) == << c[1], c[2], c[4], c[3] >>

cross_product_2d(v1, v2) == v1[1] * v2[2] - v1[2] * v2[1]

\* tf.nn.relu
relu(x) == IF x > 0 THEN x ELSE 0

RECURSIVE PenaltySum(_, _)
PenaltySum(walk, n) ==
    IF n = 0 THEN 0
    ELSE LET p1 == walk[n]
             p2 == walk[(n % 4) + 1]
             p3 == walk[((n + 1) % 4) + 1]
             v1 == << p2[1] - p1[1], p2[2] - p1[2] >>
             v2 == << p3[1] - p2[1], p3[2] - p2[2] >>
         IN  PenaltySum(walk, n - 1) + relu(0 - cross_product_2d(v1, v2))

convexity_loss(c) == PenaltySum(WalkOrder(c), 4)

InitConvex ==
    /\ ProgIdle
    /\ PolyIdle
    /\ MaskIdle
    /\ ColorIdle
    /\ DsntIdle
    /\ SizeIdle
    /\ RangeIdle
    /\ coords \in Quads
    /\ total_penalty = <<>>

ConvexityLoss ==
    /\ pc = "idle"
    /\ total_penalty = <<>>
    /\ total_penalty' = << convexity_loss(coords) >>
    /\ UNCHANGED << progVars, coords, notConvexVars >>

NextConvex == ConvexityLoss

SpecConvex == InitConvex /\ [][NextConvex]_vars

\* =====================================================================
\* marker_masking.py: estimate_marker_size
\* =====================================================================
\* A normalized coordinate is k / NormDen, a size factor p / SizeFactorDen.
\* Pixel positions are kept in units of 1 / NormDen pixel, so that the squared
\* edge lengths are whole numbers; the square root is taken exactly.
NormDen == 2
SizeFactorDen == 100
DefaultSizeFactor == 18
MinMarkerSize == 20
MaxMarkerSize == 150
NormVals == 0..MaxNorm
NormCorners == [1..4 -> NormVals \X NormVals]
ImageSizes == {<< 1, 1 >>, << 224, 224 >>, << 10000, 10000 >>}
SizeFactors == {0 - DefaultSizeFactor, DefaultSizeFactor, SizeFactorDen, 2 * SizeFactorDen}

\* Largest r in lo..hi with r * r <= n (lo * lo <= n < (hi + 1) * (hi + 1)).
RECURSIVE IntSqrtIn(_, _, _)
IntSqrtIn(n, lo, hi) ==
    IF lo >= hi THEN lo
    ELSE LET mid == (lo + hi + 1) \div 2
         IN  IF mid * mid <= n THEN IntSqrtIn(n, mid, hi) ELSE IntSqrtIn(n, lo, mid - 1)

\* (x2 - x1)**2 + (y2 - y1)**2 between corners a and b, in pixel units / NormDen
EdgeSq(c, a, b, size) ==
    LET dx == (c[b][1] - c[a][1]) * size[1]
        dy == (c[b][2] - c[a][2]) * size[2]
    IN  dx * dx + dy * dy

Min4(a, b, c, d) == Min3(Min3(a, b, c), d, d)

\* int(np.sqrt(edge_sq) / NormDen * p / SizeFactorDen): the integer part, taken
\* towards zero. floor(sqrt(y)) for y = edge_sq * p^2 / q^2 is the integer
\* square root of floor(y).
ScaledEdge(edge_sq, p) ==
    LET q2 == (NormDen * SizeFactorDen) * (NormDen * SizeFactorDen)
        a == IF p < 0 THEN 0 - p ELSE p
        y == a * a * (edge_sq \div q2) + (a * a * (edge_sq % q2)) \div q2
        r == IntSqrtIn(y, 0, 30000)
    IN  IF p < 0 THEN 0 - r ELSE r

\* Faulty variant: only the lower end of the range is enforced.
ClampMarkerSize_NoUpper(m) == IF m < MinMarkerSize THEN MinMarkerSize ELSE m

\* max(20, min(marker_size, 150))
ClampMarkerSize(m) ==
    LET capped == IF m < MaxMarkerSize THEN m ELSE MaxMarkerSize
    IN  IF capped > MinMarkerSize THEN capped ELSE MinMarkerSize

\* corners are in the order TL, TR, BL, BR.
estimate_marker_size(c, size, p) ==
    LET top_edge == EdgeSq(c, 1, 2, size)
        bottom_edge == EdgeSq(c, 3, 4, size)
        left_edge == EdgeSq(c, 1, 3, size)
        right_edge == EdgeSq(c, 2, 4, size)
        shorter_edge == Min4(top_edge, bottom_edge, left_edge, right_edge)
    IN  ClampMarkerSize(ScaledEdge(shorter_edge, p))

InitSize ==
    /\ ProgIdle
    /\ PolyIdle
    /\ MaskIdle
    /\ ColorIdle
    /\ DsntIdle
    /\ ConvexIdle
    /\ RangeIdle
    /\ norm_corners \in NormCorners
    /\ image_size \in ImageSizes
    /\ size_factor \in SizeFactors
    /\ marker_size = <<>>

EstimateMarkerSize ==
    /\ pc = "idle"
    /\ marker_size = <<>>
    /\ marker_size' = << estimate_marker_size(norm_corners, image_size, size_factor) >>
    /\ UNCHANGED << progVars, norm_corners, image_size, size_factor, notSizeVars >>

NextSize == EstimateMarkerSize

SpecSize == InitSize /\ [][NextSize]_vars

\* =====================================================================
\* marker_masking.py: get_rotated_mask_polygon
\* =====================================================================
\* Normalized coordinates are multiples of 1/GridDen; the image sizes make
\* every pixel position a whole number of half pixels. Arithmetic is exact
\* (rationals), so the inputs are those whose centre-to-corner direction has
\* a whole length in half pixels: the corner on the centre, beside it on an
\* axis, or at the end of a 3-4-5 triangle.
GridDen == 8
Expansion == 2
GridVals == {0, 3, 4, 8}
GridPoints == GridVals \X GridVals
PolyImageSizes == {<< 4, 4 >>, << 8, 4 >>}
PolyMarkerSizes == {MinMarkerSize, 25, MaxMarkerSize}

\* corner[k] * image_width, in half pixels
HalfPixels(k, width) == (2 * k * width) \div GridDen

\* np.sqrt(dx**2 + dy**2), for a sum of squares that is a square
Length(dx, dy) == IntSqrtIn(dx * dx + dy * dy, 0, 4 * GridDen)

WholeLength(dx, dy) == Length(dx, dy) * Length(dx, dy) = dx * dx + dy * dy

\* Faulty variant: the direction is divided by its length without the
\* length > 0 test; 0.0 / 0.0 is NaN.
UnitDirection_Unguarded(dx, dy, length) ==
    IF length = 0 THEN [x |-> 0, y |-> 0, den |-> 1, nan |-> TRUE]
    ELSE [x |-> dx, y |-> dy, den |-> length, nan |-> FALSE]

\* `if length > 0: dx /= length; dy /= length`: the direction (x/den, y/den)
UnitDirection(dx, dy, length) ==
    IF length > 0 THEN [x |-> dx, y |-> dy, den |-> length, nan |-> FALSE]
    ELSE [x |-> dx, y |-> dy, den |-> 1, nan |-> FALSE]

\* np.cos(np.arctan2(dy, dx)) and np.sin(...), over the direction's den;
\* arctan2(0, 0) is 0.
CosNum(d) == IF d.x = 0 /\ d.y = 0 THEN d.den ELSE d.x
SinNum(d) == d.y

\* astype(np.int32) of num/den: the fraction is dropped (towards zero)
TruncDiv(num, den) == IF num >= 0 THEN num \div den ELSE 0 - ((0 - num) \div den)

\* corners_rel, for half_size h
CornersRel(h) == << << 0 - h, 0 - h >>, << h, 0 - h >>, << h, h >>, << 0 - h, h >> >>

\* One coordinate of a vertex: the corner c2 (half pixels), moved outward by
\* dir_num/den * marker_size * 0.4, plus the rotated offset rot_num/den.
VertexCoord(c2, dir_num, rot_num, den, m) ==
    TruncDiv(5 * den * c2 + 2 * (2 * m * dir_num + 5 * rot_num), 10 * den)

get_rotated_mask_polygon(c, qc, m, size) ==
    LET cx == HalfPixels(c[1], size[1])
        cy == HalfPixels(c[2], size[2])
        center_x == HalfPixels(qc[1], size[1])
        center_y == HalfPixels(qc[2], size[2])
        dx == cx - center_x
        dy == cy - center_y
        d == UnitDirection(dx, dy, Length(dx, dy))
        mask_size == m * Expansion
        half_size == mask_size \div 2
        rel == CornersRel(half_size)
        cos_a == CosNum(d)
        sin_a == SinNum(d)
    IN  IF d.nan THEN [nan |-> TRUE, points |-> << >>]
        ELSE [nan |-> FALSE,
              points |-> [i \in 1..4 |->
                  << VertexCoord(cx, d.x, rel[i][1] * cos_a - rel[i][2] * sin_a, d.den, m),
                     VertexCoord(cy, d.y, rel[i][1] * sin_a + rel[i][2] * cos_a, d.den, m) >>]]

InitPolygon ==
    /\ ProgIdle
    /\ MaskIdle
    /\ ColorIdle
    /\ DsntIdle
    /\ ConvexIdle
    /\ SizeIdle
    /\ RangeIdle
    /\ corner \in GridPoints
    /\ quad_center \in GridPoints
    /\ poly_marker_size \in PolyMarkerSizes
    /\ poly_image_size \in PolyImageSizes
    /\ WholeLength(HalfPixels(corner[1], poly_image_size[1])
                     - HalfPixels(quad_center[1], poly_image_size[1]),
                   HalfPixels(corner[2], poly_image_size[2])
                     - HalfPixels(quad_center[2], poly_image_size[2]))
    /\ polygon = <<>>

GetRotatedMaskPolygon ==
    /\ pc = "idle"
    /\ polygon = <<>>
    /\ polygon' = << get_rotated_mask_polygon(corner, quad_center, poly_marker_size,
                                              poly_image_size) >>
    /\ UNCHANGED << progVars, corner, quad_center, poly_marker_size, poly_image_size,
                    notPolyVars >>

NextPolygon == GetRotatedMaskPolygon

SpecPolygon == InitPolygon /\ [][NextPolygon]_vars

\* =====================================================================
\* generate.py: parse_range
\* =====================================================================
\* A string is a list of characters. The alphabet has three digits, the two
\* separators, a blank and a letter.
Digits == {"0", "1", "5"}
Chars == Digits \cup {"-", ",", " ", "x"}
Steps == {1, 2}
Strings == UNION { [1..n -> Chars] : n \in 1..MaxStrLen }

DigitVal(ch) == IF ch = "0" THEN 0 ELSE IF ch = "1" THEN 1 ELSE 5

Raised == [status |-> "ValueError"]

\* `ch in str`
Contains(str, ch) == \E i \in DOMAIN str : str[i] = ch

\* str.split(sep)
RECURSIVE StrSplit(_, _)
StrSplit(str, sep) ==
    IF ~Contains(str, sep) THEN << str >>
    ELSE LET i == CHOOSE k \in DOMAIN str :
                      str[k] = sep /\ \A j \in 1..(k - 1) : str[j] # sep
         IN  << SubSeq(str, 1, i - 1) >> \o StrSplit(SubSeq(str, i + 1, Len(str)), sep)

\* str.strip()
RECURSIVE Strip(_)
Strip(str) ==
    IF str = <<>> THEN str
    ELSE IF str[1] = " " THEN Strip(SubSeq(str, 2, Len(str)))
    ELSE IF str[Len(str)] = " " THEN Strip(SubSeq(str, 1, Len(str) - 1))
    ELSE str

RECURSIVE DecimalValue(_)
DecimalValue(ds) ==
    IF ds = <<>> THEN 0
    ELSE 10 * DecimalValue(SubSeq(ds, 1, Len(ds) - 1)) + DigitVal(ds[Len(ds)])

\* int(str): blanks around the number are dropped, a sign may lead, and what is
\* left must be one or more digits. << >> stands for ValueError.
int(str) ==
    LET t == Strip(str)
        neg == t # <<>> /\ t[1] = "-"
        ds == IF neg THEN SubSeq(t, 2, Len(t)) ELSE t
    IN  IF ds = <<>> \/ \E i \in DOMAIN ds : ds[i] \notin Digits THEN <<>>
        ELSE << IF neg THEN 0 - DecimalValue(ds) ELSE DecimalValue(ds) >>

\* list(range(start, stop, step)) for step > 0
range(start, stop, st) ==
    IF stop <= start THEN <<>>
    ELSE [i \in 1..(((stop - start - 1) \div st) + 1) |-> start + (i - 1) * st]

\* Faulty variant: the end of the range is left out (range(start, end, step)).
SubRange_ExclusiveEnd(part, st) ==
    LET pieces == StrSplit(part, "-")
    IN  IF int(pieces[1]) = <<>> \/ int(pieces[2]) = <<>> \/ Len(pieces) > 2 THEN Raised
        ELSE [status |-> "ok",
              numbers |-> range(int(pieces[1])[1], int(pieces[2])[1], st)]

\* `start, end = map(int, part.split('-'))` then range(start, end + 1, step):
\* the list, or Raised when a piece is no number or there are not two pieces.
SubRange(part, st) ==
    LET pieces == StrSplit(part, "-")
    IN  IF int(pieces[1]) = <<>> \/ int(pieces[2]) = <<>> \/ Len(pieces) > 2 THEN Raised
        ELSE [status |-> "ok",
              numbers |-> range(int(pieces[1])[1], int(pieces[2])[1] + 1, st)]

\* The loop over range_str.split(','), from part k on, with the numbers so far.
RECURSIVE ListParts(_, _, _, _)
ListParts(parts, k, st, acc) ==
    IF k > Len(parts) THEN [status |-> "ok", numbers |-> acc]
    ELSE LET part == Strip(parts[k])
         IN  IF Contains(part, "-")
             THEN LET sub == SubRange(part, st)
                  IN  IF sub.status # "ok" THEN Raised
                      ELSE ListParts(parts, k + 1, st, acc \o sub.numbers)
             ELSE IF int(part) = <<>> THEN Raised
                  ELSE ListParts(parts, k + 1, st, acc \o int(part))

parse_range(str, st) ==
    IF Contains(str, ",") THEN ListParts(StrSplit(str, ","), 1, st, <<>>)
    ELSE IF Contains(str, "-") THEN SubRange(str, st)
    ELSE IF int(str) = <<>> THEN Raised
    ELSE [status |-> "ok", numbers |-> int(str)]

InitRange ==
    /\ ProgIdle
    /\ PolyIdle
    /\ MaskIdle
    /\ ColorIdle
    /\ DsntIdle
    /\ ConvexIdle
    /\ SizeIdle
    /\ range_str \in Strings
    /\ step \in Steps
    /\ numbers = <<>>

ParseRange ==
    /\ pc = "idle"
    /\ numbers = <<>>
    /\ numbers' = << parse_range(range_str, step) >>
    /\ UNCHANGED << progVars, range_str, step, notRangeVars >>

NextRange == ParseRange

SpecRange == InitRange /\ [][NextRange]_vars

\* =====================================================================
\* Properties
\* =====================================================================

\* Reference reading of a validation-loss list h: the best loss after h, and the
\* last epoch of h that improved on the best before it by more than min_delta.
RECURSIVE RunBest(_)
RunBest(h) ==
    IF h = <<>> THEN Inf
    ELSE LET b == RunBest(SubSeq(h, 1, Len(h) - 1))
         IN  IF Lt(h[Len(h)], Sub(b, min_delta)) THEN h[Len(h)] ELSE b

RECURSIVE LastImproving(_)
LastImproving(h) ==
    IF h = <<>> THEN 0
    ELSE IF Lt(h[Len(h)], Sub(RunBest(SubSeq(h, 1, Len(h) - 1)), min_delta))
         THEN Len(h)
         ELSE LastImproving(SubSeq(h, 1, Len(h) - 1))

\* The weights the model has after the training batches of e epochs.
WeightsAfterEpoch(e) == e * Batches(n_train)

\* h improves in each of its first k epochs and then fails to improve in the
\* next `patience` epochs.
PlateauReached(h, k) ==
    /\ k >= 1
    /\ Len(h) >= k + patience
    /\ \A i \in (k + 1)..(k + patience) : ~(h[i] + min_delta < h[k])

\* C1: with patience 8 and min_delta 0.001, when the validation loss improves in
\* each of the first k epochs and then fails to improve for 8 epochs, the loop
\* stops at the end of epoch k + 8 (no further epoch is run) by early stopping,
\* and the returned model carries the weights of epoch k.
C1_StopsAtPlateauEnd ==
    LET h == history.val_loss
        k == ImprovingLen(h)
    IN  PlateauReached(h, k) =>
          /\ Len(h) = k + patience
          /\ epoch + 1 = k + patience
          /\ pc \in {"inference_samples", "checkpoint_decision", "restore", "returned"}
          /\ (pc \in {"restore", "returned"} => outcome = "early_stopped")
          /\ (pc = "returned" =>
                /\ model_weights = WeightsAfterEpoch(k)
                /\ model_weights # WeightsAfterEpoch(k + patience))

\* C1 witness: three improving epochs, eight plateau epochs, stopped at epoch 11
\* with the weights of epoch 3.
C1_Witness ==
    /\ pc = "returned"
    /\ outcome = "early_stopped"
    /\ ImprovingLen(history.val_loss) = 3
    /\ Len(history.val_loss) = 11
    /\ model_weights = WeightsAfterEpoch(3)

\* C2: at every checkpoint decision, if val_loss < best_val_loss - min_delta the
\* best loss becomes val_loss, best_weights the current weights and the patience
\* counter 0; otherwise best loss and best weights stay and the counter grows by 1.
C2_CheckpointDecision ==
    [][ (pc = "checkpoint_decision" /\ pc' # pc) =>
          IF Lt(val_loss, Sub(best_val_loss, min_delta))
          THEN /\ best_val_loss' = val_loss
               /\ best_weights' = << model_weights >>
               /\ patience_counter' = 0
          ELSE /\ best_val_loss' = best_val_loss
               /\ best_weights' = best_weights
               /\ patience_counter' = patience_counter + 1 ]_vars

\* C2 witness: a decision that did not improve (by exactly min_delta) after one
\* that did.
C2_Witness ==
    /\ pc = "epoch_start"
    /\ Len(history.val_loss) = 2
    /\ history.val_loss[2] + min_delta = history.val_loss[1]
    /\ patience_counter = 1
    /\ best_val_loss = history.val_loss[1]
    /\ best_weights = << WeightsAfterEpoch(1) >>

\* C3 as stated: however the loop is left, the returned model holds the best
\* weight snapshot.
C3_Original ==
    pc = "returned" => (best_weights # <<>> /\ model_weights = best_weights[1])

\* C3 amended: however the loop is left, the returned model holds the weights of
\* the last improving epoch when there is one, and otherwise (no epoch improved,
\* no snapshot exists) the weights it had when the loop was left.
C3_ReturnsBestSnapshot ==
    pc = "returned" =>
        LET e == LastImproving(history.val_loss)
        IN  /\ outcome \in {"early_stopped", "epochs_exhausted", "user_stopped"}
            /\ model_weights =
                 IF e > 0 THEN WeightsAfterEpoch(e)
                 ELSE WeightsAfterEpoch(Len(history.val_loss))

\* C3 witness: an early-stopped run whose restored snapshot is older than the
\* weights of the last epoch.
C3_Witness ==
    /\ pc = "returned"
    /\ outcome = "early_stopped"
    /\ model_weights = WeightsAfterEpoch(LastImproving(history.val_loss))
    /\ model_weights # WeightsAfterEpoch(Len(history.val_loss))

InEpoch ==
    pc \in {"train_batches", "validate_batches", "epoch_metrics", "inference_samples",
            "checkpoint_decision"}

\* C5: a stop file created after an epoch's poll never interrupts that epoch: the
\* loop goes on through its training batches, validation batches and checkpoint
\* decision without reading or deleting the file, and a user stop is only ever
\* taken at the poll that opens an epoch.
C5_NoMidEpochInterrupt ==
    [][ /\ (InEpoch /\ << pc, batch_idx >>' # << pc, batch_idx >>) =>
              /\ stop_file_exists' = stop_file_exists
              /\ outcome' # "user_stopped"
              /\ epoch' = IF pc' = "epoch_start" THEN epoch + 1 ELSE epoch
              /\ pc = "train_batches" => pc' \in {"train_batches", "validate_batches"}
              /\ pc = "validate_batches" => pc' \in {"validate_batches", "epoch_metrics"}
              /\ pc = "epoch_metrics" => pc' = "inference_samples"
              /\ pc = "inference_samples" => pc' = "checkpoint_decision"
              /\ pc = "checkpoint_decision" => pc' \in {"epoch_start", "restore"}
        /\ (outcome' = "user_stopped" /\ outcome # "user_stopped") =>
              (pc = "epoch_start" /\ stop_file_exists)
        /\ (stop_file_exists /\ ~stop_file_exists') => pc = "epoch_start"
       ]_vars

\* C5 witness: the file appeared during the second epoch, which ran to its end;
\* the signal is about to be taken at the poll of the third.
C5_Witness ==
    /\ pc = "epoch_start"
    /\ epoch = 2
    /\ epoch < args.epochs
    /\ Len(history.val_loss) = 2
    /\ stop_file_exists
    /\ outcome = "none"

\* C6: best_val_loss, best_weights and patience_counter change only in the
\* checkpoint decision that ends an epoch; training batches, validation batches
\* and the inference visualizations leave them unchanged.
C6_RunStateFrame ==
    [][ (runVars' # runVars) =>
            (pc = "checkpoint_decision" /\ pc' \in {"epoch_start", "restore"}) ]_vars

\* C6 witness: a later epoch has trained, validated and produced its samples
\* while the run state held a snapshot and a non-zero counter.
C6_Witness ==
    /\ pc = "checkpoint_decision"
    /\ samples_generated = 3
    /\ best_weights = << WeightsAfterEpoch(1) >>
    /\ patience_counter = 1
    /\ model_weights = WeightsAfterEpoch(3)

PhaseOrder ==
    { << "train_entry", "epoch_start" >>,
      << "epoch_start", "train_batches" >>, << "epoch_start", "restore" >>,
      << "train_batches", "train_batches" >>, << "train_batches", "validate_batches" >>,
      << "validate_batches", "validate_batches" >>, << "validate_batches", "epoch_metrics" >>,
      << "epoch_metrics", "inference_samples" >>,
      << "inference_samples", "checkpoint_decision" >>,
      << "checkpoint_decision", "epoch_start" >>, << "checkpoint_decision", "restore" >>,
      << "restore", "returned" >> }

\* C7: every executed epoch runs train_batches, validate_batches, checkpoint
\* decision in this order, the decision only after all validation batches; the
\* loop is left with exactly one of early_stopped, epochs_exhausted, user_stopped,
\* set once, before the best weights are restored.
C7_PhaseOrder ==
    [][ (<< pc, batch_idx >>' # << pc, batch_idx >>) =>
          /\ << pc, pc' >> \in PhaseOrder
          /\ (pc = "train_batches" /\ pc' = "train_batches") => batch_idx' = batch_idx + 1
          /\ (pc = "train_batches" /\ pc' = "validate_batches") =>
                 batch_idx + 1 = Batches(n_train)
          /\ (pc = "validate_batches" /\ pc' = "validate_batches") => batch_idx' = batch_idx + 1
          /\ (pc = "validate_batches" /\ pc' = "epoch_metrics") =>
                 batch_idx + 1 = Batches(n_val)
          /\ (pc' = "restore") =>
                 (outcome = "none" /\
                  outcome' \in {"early_stopped", "epochs_exhausted", "user_stopped"})
          /\ (pc' # "restore") => outcome' = outcome
          /\ (pc' \notin {"restore", "returned"}) => outcome' = "none"
       ]_vars

\* C7 witness: a run of several epochs, each with more than one validation
\* batch, that used up its epochs and returned.
C7_Witness ==
    /\ pc = "returned"
    /\ outcome = "epochs_exhausted"
    /\ Len(history.val_loss) = args.epochs
    /\ args.epochs > patience
    /\ Batches(n_val) > 1

FailureKinds == {"no_json", "no_corners", "load_raises"}

C9_MaskFailureFallback ==
    [][ /\ (pc = "load_raw" /\ Len(file_kinds') > Len(file_kinds)
            /\ file_kinds'[idx + 1] = "mask_fails" /\ ~args.no_marker_masking) =>
              /\ events' = Append(events, Event("status", "mask_warning", idx + 1, FALSE))
              /\ raw_samples' = Append(raw_samples, [file |-> idx + 1, masked |-> FALSE])
              /\ skipped' = skipped
              /\ idx' = idx + 1
              /\ pc' = "load_raw"
              /\ exit_status' = "running"
        /\ \A k \in 1..Len(raw_samples') :
              raw_samples'[k].masked =
                  (~args.no_marker_masking /\ file_kinds'[raw_samples'[k].file] = "ok")
       ]_vars

\* C9 witness: a frame whose masking failed was kept unmasked, and a later frame
\* was loaded and masked.
C9_Witness ==
    /\ pc = "process"
    /\ skipped = 0
    /\ \E j \in 1..Len(raw_samples) : \E k \in 1..Len(raw_samples) :
          /\ j < k
          /\ file_kinds[raw_samples[j].file] = "mask_fails"
          /\ ~raw_samples[j].masked
          /\ raw_samples[k].masked
          /\ \E n \in 1..Len(events) :
                events[n] = Event("status", "mask_warning", raw_samples[j].file, FALSE)

\* Loading is over: load_dataset has returned or has ended the run.
LoadingOver == pc \notin {"load_raw", "process", "check_min"}

\* C10: with fewer than 20 samples after loading, an error event carrying a hint
\* is emitted and the process exits with status 1; no split, training epoch,
\* model save or export takes place.
C10_InsufficientData ==
    (LoadingOver /\ Len(images) < 20) =>
        /\ pc = "exited"
        /\ exit_status = "exit1"
        /\ events # <<>>
        /\ events[Len(events)].event = "error"
        /\ events[Len(events)].hint
        /\ n_train = 0 /\ n_val = 0
        /\ epoch = 0 /\ model_weights = 0 /\ history = EmptyHistory
        /\ samples_generated = 0
        /\ saved_weights = <<>>
        /\ ~export_attempted

\* C10 witness: 18 samples were loaded and main ended the run.
C10_Witness ==
    /\ pc = "exited"
    /\ Len(images) = 18
    /\ exit_status = "exit1"
    /\ events[Len(events)] = Event("error", "insufficient_data", 0, TRUE)

\* =====================================================================
\* marker_masking.py
\* =====================================================================
DirectCallers == {"mask_markers", "mask_markers_with_visualization"}

\* C11: mask_markers and mask_markers_with_visualization fail with ValueError
\* for every corners list whose length is not 4, whatever the method; the call
\* gives no image back and leaves the caller's image as it was.
C11_WrongCornerCountFails ==
    [][ (Len(corners) # 4 /\ returned' # returned) =>
            /\ image' = image
            /\ \A c \in DirectCallers :
                   returned'[c] \in {NotCalled, [status |-> "ValueError"]}
      ]_vars

\* C11 witness: a list of more than 4 corners, whose polygons would all fall in
\* the image, was refused by both functions.
C11_Witness ==
    /\ Len(corners) > 4
    /\ \A i \in 1..Len(corners) : corners[i].in_frame
    /\ \A c \in DirectCallers : returned[c] = [status |-> "ValueError"]

\* C12 as stated: for every method and every dtype among uint8, float32 and
\* float64, the image mask_markers returns has the shape and the dtype of its
\* input.
C12_Original ==
    returned["mask_markers"].status = "ok" =>
        /\ returned["mask_markers"].image.shape = image.shape
        /\ returned["mask_markers"].image.dtype = image.dtype

\* C13 as stated: on the same image and the same 4 corners, the masked image of
\* the training path equals the masked image of the preview path.
C13_Original ==
    (returned["load_dataset"].status = "ok"
        /\ returned["generate_pipeline_preview"].status = "ok") =>
        returned["load_dataset"].image = returned["generate_pipeline_preview"].image

\* =====================================================================
\* Colour augmentation
\* =====================================================================
\* C14 as stated: for every image and every factor, each augmentation of
\* train_model.py returns the pixel values its namesake of pipeline_preview.py
\* returns.
C14_Original ==
    (train_out.fn # "none" /\ train_out.fn = preview_out.fn) =>
        train_out.image = preview_out.image

\* C18: with factor 1.0 the three colour augmentations of train_model.py are
\* the identity: the image returned equals the input pixel for pixel.
C18_FactorOneIdentity ==
    (factor = FactorUnit /\ train_out.fn # "none") => train_out.image = rgb

\* C18 witness: augment_contrast(image, 1.0) was applied to an image of several
\* pixels that are not all alike, one of them coloured, and gave the image back.
C18_Witness ==
    /\ factor = FactorUnit
    /\ train_out.fn = "augment_contrast"
    /\ Len(rgb) = MaxPixels
    /\ rgb[1] # rgb[2]
    /\ rgb[1][1] # rgb[1][2]
    /\ train_out.image = rgb

\* =====================================================================
\* DSNT decoding
\* =====================================================================
\* C15 as stated: for the same heatmap, dsnt_decode, dsnt_decode_numpy and the
\* inline decoder of the per-epoch inference samples return the same (x, y).
C15_Original ==
    (\A d \in Decoders : decoded[d] # <<>>) =>
        \A d1, d2 \in Decoders : decoded[d1] = decoded[d2]

\* C19: decoding hm + c gives the same (x, y) as decoding hm, for every
\* decoder, heatmap channel hm and constant c.
C19_ShiftInvariant ==
    \A d \in Decoders :
        (decoded[d] # <<>> /\ decoded_shifted[d] # <<>>) => decoded_shifted[d] = decoded[d]

\* C19 witness: a heatmap that is not flat, whose peak is off centre, decoded
\* by dsnt_decode and dsnt_decode_numpy with and without a negative constant.
C19_Witness ==
    /\ shift < 0
    /\ \E i, j \in DOMAIN hm.v : hm.v[i] # hm.v[j]
    /\ \A d \in {"dsnt_decode", "dsnt_decode_numpy"} :
           /\ decoded[d] # <<>>
           /\ decoded_shifted[d] = decoded[d]
           /\ decoded[d][1].num * 2 # decoded[d][1].den

\* =====================================================================
\* Convexity penalty
\* =====================================================================
\* The unit square, by channel: TL = (0,0), TR = (1,0), BL = (0,1), BR = (1,1).
UnitSquare == << << 0, 0 >>, << 1, 0 >>, << 0, 1 >>, << 1, 1 >> >>

\* Two corners of the unit square that lie across a diagonal.
Diagonal(p, q) == p[1] # q[1] /\ p[2] # q[2]

\* c puts the four points of the unit square on the four channels in such a way
\* that the walk TL, TR, BR, BL crosses itself: one of its edges is a diagonal.
Bowtie(c) ==
    /\ { c[k] : k \in 1..4 } = { UnitSquare[k] : k \in 1..4 }
    /\ \/ Diagonal(c[1], c[2])
       \/ Diagonal(c[2], c[4])
       \/ Diagonal(c[4], c[3])
       \/ Diagonal(c[3], c[1])

\* C16: the convexity penalty is exactly 0 for the unit square and strictly
\* positive for every bowtie assignment of the same four points.
C16_ConvexityPenalty ==
    total_penalty # <<>> =>
        /\ coords = UnitSquare => total_penalty[1] = 0
        /\ Bowtie(coords) => total_penalty[1] > 0

\* C16 witness: the penalty of the unit square was computed and is 0.
C16_Witness ==
    /\ coords = UnitSquare
    /\ total_penalty = << 0 >>

\* =====================================================================
\* estimate_marker_size
\* =====================================================================
\* C17: for every 4 corners, image size and size_factor, estimate_marker_size
\* returns an integer of the closed range 20..150.
C17_MarkerSizeInRange ==
    marker_size # <<>> =>
        /\ marker_size[1] \in Int
        /\ MinMarkerSize <= marker_size[1]
        /\ marker_size[1] <= MaxMarkerSize

\* C17 witness: a quadrilateral with edges of thousands of pixels, whose
\* unclamped size exceeds the range, came back as 150.
C17_Witness ==
    /\ image_size = << 10000, 10000 >>
    /\ size_factor = DefaultSizeFactor
    /\ EdgeSq(norm_corners, 1, 2, image_size) > 0
    /\ ScaledEdge(Min4(EdgeSq(norm_corners, 1, 2, image_size),
                       EdgeSq(norm_corners, 3, 4, image_size),
                       EdgeSq(norm_corners, 1, 3, image_size),
                       EdgeSq(norm_corners, 2, 4, image_size)), size_factor) > MaxMarkerSize
    /\ marker_size = << MaxMarkerSize >>

\* =====================================================================
\* parse_range
\* =====================================================================
\* str is 'a-b' for two numbers written in digits, with b < a.
EndBeforeStart(str) ==
    /\ ~Contains(str, ",")
    /\ Len(StrSplit(str, "-")) = 2
    /\ \A k \in 1..2 : LET piece == StrSplit(str, "-")[k]
                       IN  piece # <<>> /\ \A i \in DOMAIN piece : piece[i] \in Digits
    /\ DecimalValue(StrSplit(str, "-")[2]) < DecimalValue(StrSplit(str, "-")[1])

\* C20 as stated: parse_range raises ValueError for a range whose end precedes
\* its start, for a string with a letter in it and for a string that begins
\* with a minus sign; it returns no list for them.
C20_Original ==
    (numbers # <<>> /\ (\/ EndBeforeStart(range_str)
                        \/ Contains(range_str, "x")
                        \/ range_str[1] = "-")) =>
        numbers[1] = Raised

\* str is written in digits only.
AllDigits(str) == str # <<>> /\ \A i \in DOMAIN str : str[i] \in Digits

\* str is 'a-b' for two numbers written in digits, with a <= b.
StartUpToEnd(str) ==
    /\ ~Contains(str, ",")
    /\ Len(StrSplit(str, "-")) = 2
    /\ AllDigits(StrSplit(str, "-")[1])
    /\ AllDigits(StrSplit(str, "-")[2])
    /\ DecimalValue(StrSplit(str, "-")[1]) <= DecimalValue(StrSplit(str, "-")[2])

\* C21 as stated: for every comma-separated input, lists that mix single
\* numbers with 'a-b' sub-ranges included, the step argument is ignored: the
\* call gives what the same call with step 1 gives.
C21_Original ==
    (numbers # <<>> /\ Contains(range_str, ",")) =>
        numbers[1] = parse_range(range_str, 1)

\* C22: for 'a-b' with 0 <= a <= b and a step s >= 1, parse_range returns
\* the ascending list a, a+s, a+2s, ... of all such values up to b, both ends
\* included (b is in it whenever b-a is a multiple of s); a single number
\* 'n' yields [n].
C22_InclusiveRange ==
    numbers # <<>> =>
        /\ StartUpToEnd(range_str) =>
              LET a == DecimalValue(StrSplit(range_str, "-")[1])
                  b == DecimalValue(StrSplit(range_str, "-")[2])
                  L == numbers[1].numbers
              IN  /\ numbers[1].status = "ok"
                  /\ Len(L) >= 1
                  /\ L[1] = a
                  /\ \A i \in 1..(Len(L) - 1) : L[i + 1] = L[i] + step
                  /\ L[Len(L)] <= b
                  /\ L[Len(L)] + step > b
                  /\ ((b - a) % step = 0 => L[Len(L)] = b)
        /\ AllDigits(range_str) =>
              numbers[1] = [status |-> "ok", numbers |-> << DecimalValue(range_str) >>]

\* A call on '1-5' with step 2 gave [1, 3, 5].
C22_Witness ==
    /\ range_str = << "1", "-", "5" >>
    /\ step = 2
    /\ numbers = << [status |-> "ok", numbers |-> << 1, 3, 5 >>] >>

\* =====================================================================
\* get_rotated_mask_polygon
\* =====================================================================
\* The square of half size h about the point (cx2/2, cy2/2), with no offset
\* and no rotation, as integers.
SquareAbout(cx2, cy2, h) ==
    [i \in 1..4 |-> << TruncDiv(cx2 + 2 * CornersRel(h)[i][1], 2),
                       TruncDiv(cy2 + 2 * CornersRel(h)[i][2], 2) >>]

\* C23: when the corner coincides with the quadrilateral's centre, nothing is
\* divided by the zero length: the mask is the square centred on the corner
\* itself, with no outward offset, and its 4 vertices are integers, none of
\* them from a NaN.
C23_DegenerateDirection ==
    (polygon # <<>> /\ corner = quad_center) =>
        /\ polygon[1].nan = FALSE
        /\ polygon[1].points =
              SquareAbout(HalfPixels(corner[1], poly_image_size[1]),
                          HalfPixels(corner[2], poly_image_size[2]),
                          poly_marker_size)
        /\ \A i \in 1..4 : polygon[1].points[i] \in Int \X Int

\* The corner (1.5, 1.5) px on the centre, marker size 20: the square from
\* -18 to 21.
C23_Witness ==
    /\ corner = << 3, 3 >>
    /\ quad_center = << 3, 3 >>
    /\ poly_image_size = << 4, 4 >>
    /\ poly_marker_size = MinMarkerSize
    /\ polygon = << [nan |-> FALSE,
                     points |-> << << -18, -18 >>, << 21, -18 >>,
                                   << 21, 21 >>, << -18, 21 >> >>] >>

\* =====================================================================
\* train_model: the run state over the epochs
\* =====================================================================
\* The lowest validation loss of h; a NaN entry is no loss value and is passed
\* over, and a list without a number has the minimum +inf.
RECURSIVE MinLoss(_)
MinLoss(h) ==
    IF h = <<>> THEN Inf
    ELSE LET m == MinLoss(SubSeq(h, 1, Len(h) - 1))
         IN  IF Lt(h[Len(h)], m) THEN h[Len(h)] ELSE m

\* a + d on floats, d finite
Add(a, d) == IF a = Inf \/ a = NaN THEN a ELSE a + d

\* Every epoch recorded in history has had its checkpoint decision.
DecisionsDone == pc \notin {"inference_samples", "checkpoint_decision"}

\* C24: after every checkpoint decision best_val_loss is within min_delta of
\* the lowest validation loss m of the completed epochs,
\* m <= best_val_loss <= m + min_delta, the snapshot held is that of an epoch
\* whose validation loss is best_val_loss, and best_val_loss never increases.
C24_BestWithinDelta ==
    /\ [](( DecisionsDone /\ history.val_loss # <<>> ) =>
            LET h == history.val_loss
                m == MinLoss(h)
            IN  /\ ~Lt(best_val_loss, m)
                /\ ~Lt(Add(m, min_delta), best_val_loss)
                /\ best_weights # <<>> =>
                     \E e \in 1..Len(h) : /\ h[e] = best_val_loss
                                          /\ best_weights[1] = WeightsAfterEpoch(e))
    /\ [][ ~Lt(best_val_loss, best_val_loss') ]_vars

\* C24 witness: the second epoch was lower than the first by exactly
\* min_delta, which is no improvement: best_val_loss stays min_delta above the
\* lowest loss seen.
C24_Witness ==
    /\ pc = "epoch_start"
    /\ history.val_loss = << 2, 1 >>
    /\ best_val_loss = 2
    /\ best_weights = << WeightsAfterEpoch(1) >>

\* The last epoch of h, from epoch i on, that improved on the best before it by
\* more than min_delta, in one pass over h: best is the best loss and last the
\* last improving epoch of the epochs before i.
RECURSIVE LastImprovingFrom(_, _, _, _)
LastImprovingFrom(h, i, best, last) ==
    IF i > Len(h) THEN last
    ELSE IF Lt(h[i], Sub(best, min_delta))
         THEN LastImprovingFrom(h, i + 1, h[i], i)
         ELSE LastImprovingFrom(h, i + 1, best, last)

\* C25: in every state of the loop 0 <= patience_counter <= patience, the
\* counter is the number of completed epochs since the last improving one, and
\* an epoch is begun only while the counter is below patience.
C25_PatienceCounter ==
    /\ [](/\ patience_counter \in 0..patience
          /\ pc \in {"epoch_start", "restore", "returned"} =>
               patience_counter =
                 Len(history.val_loss) - LastImprovingFrom(history.val_loss, 1, Inf, 0)
          /\ InEpoch => patience_counter < patience)
    /\ [][ (pc = "epoch_start" /\ pc' = "train_batches") =>
               patience_counter < patience ]_vars

\* C25 witness: the first epoch improved, the next eight did not, and the loop
\* was left with the counter at patience.
C25_Witness ==
    /\ pc = "restore"
    /\ outcome = "early_stopped"
    /\ patience_counter = patience
    /\ Len(history.val_loss) = patience + 1
    /\ LastImproving(history.val_loss) = 1

\* C26: whatever the validation losses and whenever the stop file is created,
\* the epoch loop ends, having executed at most `epochs` epochs: early
\* stopping and the stop signal only ever shorten the run.
C26_TerminatesWithinEpochs ==
    /\ [](/\ Len(history.val_loss) <= args.epochs
          /\ InEpoch => epoch < args.epochs
          /\ pc \in {"restore", "returned"} =>
               /\ outcome = "epochs_exhausted" => Len(history.val_loss) = args.epochs
               /\ outcome \in {"early_stopped", "user_stopped"} =>
                    Len(history.val_loss) <= args.epochs)
    /\ <>(pc = "returned")

\* C26 witness: a run that used up all of its epochs and returned.
C26_Witness ==
    /\ pc = "returned"
    /\ outcome = "epochs_exhausted"
    /\ args.epochs = LongEpochs
    /\ Len(history.val_loss) = LongEpochs

\* No poll of the stop file lies ahead: the last scheduled epoch is under way,
\* or the loop has been left.
PollsOver ==
    \/ InEpoch /\ epoch + 1 = args.epochs
    \/ pc = "epoch_start" /\ epoch >= args.epochs
    \/ pc \in {"restore", "returned"}

\* C27: a stop file that exists once the last poll of the run is over (in the
\* last scheduled epoch, or after the epoch at which early stopping fired) is
\* never consumed: train_model returns without deleting it and it is still
\* there afterwards. A file is only ever removed by the poll that opens a
\* scheduled epoch.
C27_LateStopFileStays ==
    [][ /\ (stop_file_exists /\ PollsOver) => (stop_file_exists' /\ PollsOver')
        /\ (stop_file_exists /\ ~stop_file_exists') =>
              (pc = "epoch_start" /\ epoch < args.epochs)
        /\ (stop_file_exists /\ pc = "checkpoint_decision" /\ pc' = "restore") =>
              stop_file_exists' ]_vars

\* C27 witness: the run stopped early and returned with the stop file in place.
C27_Witness ==
    /\ pc = "returned"
    /\ outcome = "early_stopped"
    /\ stop_file_exists
    /\ Len(history.val_loss) = patience + 1

\* The loop was left before its first epoch: no epoch was scheduled, or the stop
\* signal was taken at the first poll.
LeftBeforeFirstEpoch ==
    /\ pc \in {"restore", "returned"}
    /\ \/ args.epochs = 0
       \/ outcome = "user_stopped" /\ epoch = 0

\* C28: when the loop is left before any epoch has recorded an improvement
\* (epochs = 0, or the stop signal is taken at the first epoch) best_weights is
\* still None, nothing is restored, and train_model returns the model with the
\* weights it has and an empty history, without raising.
C28_NoSnapshotExit ==
    /\ [](LeftBeforeFirstEpoch =>
            /\ best_weights = <<>>
            /\ history = EmptyHistory
            /\ model_weights = WeightsAfterEpoch(0)
            /\ exit_status = "running")
    /\ [][ (pc = "restore" /\ pc' # "restore" /\ LeftBeforeFirstEpoch) =>
              /\ pc' = "returned"
              /\ model_weights' = model_weights
              /\ history' = history ]_vars

\* C28 witness: the stop file was there at the first poll and the run returned
\* with nothing trained.
C28_Witness ==
    /\ pc = "returned"
    /\ args.epochs > 0
    /\ outcome = "user_stopped"
    /\ epoch = 0
    /\ history = EmptyHistory
    /\ best_weights = <<>>

\* The epochs whose training and validation have run to the end.
CompletedEpochs ==
    IF \/ pc \in {"inference_samples", "checkpoint_decision"}
       \/ pc \in {"restore", "returned"} /\ outcome = "early_stopped"
    THEN epoch + 1
    ELSE epoch

\* C29: throughout the loop the four history lists have the same length, the
\* number of epochs completed; an epoch cut off by the stop signal adds no
\* entry and the epoch that triggers early stopping adds exactly one.
C29_HistoryLengths ==
    /\ [](/\ Len(history.loss) = CompletedEpochs
          /\ Len(history.val_loss) = CompletedEpochs
          /\ Len(history.coord_mae) = CompletedEpochs
          /\ Len(history.val_coord_mae) = CompletedEpochs)
    /\ [][ /\ (outcome' = "user_stopped" /\ outcome # "user_stopped") =>
                 history' = history
           /\ (outcome' = "early_stopped" /\ outcome # "early_stopped") =>
                 /\ history' = history
                 /\ Len(history.val_loss) = epoch + 1 ]_vars

\* C29 witness: the stop signal cut off the third epoch; the lists hold the two
\* epochs before it.
C29_Witness ==
    /\ pc = "restore"
    /\ outcome = "user_stopped"
    /\ epoch = 2
    /\ Len(history.loss) = 2
    /\ Len(history.val_coord_mae) = 2

\* =====================================================================
\* load_dataset: the processing loop
\* =====================================================================
\* C30: load_dataset returns images, heatmaps and coords of one length N: the
\* number of raw frames loaded without color augmentation, 9 times that with
\* it; the entries of one raw frame are consecutive, begin with the
\* un-augmented original, and all carry that frame's heatmaps and coordinates.
C30_LoadedDataset ==
    /\ pc = "process" =>
         LET f == IF args.color_augmentation THEN augment_factor ELSE 1
         IN  /\ Len(images) = idx * f
             /\ Len(all_heatmaps) = idx * f
             /\ Len(all_coords) = idx * f
             /\ \A r \in 1..idx :
                  /\ images[(r - 1) * f + 1].aug = "original"
                  /\ \A k \in 1..f :
                       /\ images[(r - 1) * f + k].file = raw_samples[r].file
                       /\ all_heatmaps[(r - 1) * f + k] = raw_samples[r].file
                       /\ all_coords[(r - 1) * f + k] = raw_samples[r].file
    /\ pc = "check_min" =>
         /\ Len(images) = Len(all_heatmaps)
         /\ Len(images) = Len(all_coords)
         /\ Len(images) % (IF args.color_augmentation THEN augment_factor ELSE 1) = 0

\* C30 witness: three frames loaded with color augmentation on, about to be
\* returned as 27 samples.
C30_Witness ==
    /\ pc = "process"
    /\ args.color_augmentation
    /\ idx = Len(raw_samples)
    /\ Len(raw_samples) = MaxFiles
    /\ Len(images) = augment_factor * MaxFiles

====
